---- MODULE Spec2Model ----
(***************************************************************************)
(* Model of the Haiku 9P2000.L file-system client: handle pools, the       *)
(* protocol client (P9Client), the volume and the inode adapter.           *)
(*                                                                         *)
(* Three specifications share the variables:                               *)
(*   SpecWire  concurrent host threads, each running one client operation  *)
(*             at a time, step by step (tag pool, request mutex, wire);    *)
(*   SpecOps   one thread running every client operation against every    *)
(*             response the transport may deliver;                         *)
(*   SpecVfs   (further down) the volume / inode layer, one whole handler  *)
(*             per action.                                                 *)
(***************************************************************************)
EXTENDS Integers, Naturals, Sequences, FiniteSets, TLC

\* ------------------------------------------------------------------ bounds
NumThreads == 2
MaxTags == 1
MaxFids == 3
MaxIno == 2
MaxCookies == 1
\* Transactions one Inode::Read or Inode::Write call may make.
MaxIoRpcs == 3
\* Arguments of Read and Write: a position and three lengths.
IoPos == 100
SmallLen == 10
ChunkLen == 4096
ExampleLen == 12000
\* Treaddir requests one Inode::ReadDir call may make, entries one Rreaddir
\* may carry, the largest *_num a caller passes and a roomy dirent buffer.
MaxRefills == 3
MaxPer == 2
MaxNum == 4
BigOut == 1024
\* An errno (EAGAIN) that is not among the P9_E* definitions.
UnknownErrno == 11
\* Values written to one buffer before it is reset.
MaxItems == 2

\* ------------------------------------------------------- program constants
P9_NOTAG == 65535
\* ((uint32)~0), the all-ones word; written -1 because the checker's integers
\* are 32-bit signed.  Unsigned comparisons against it are spelled out.
P9_NOFID == -1
P9_HEADER_SIZE == 7
P9_QID_SIZE == 13
P9_DEFAULT_MSIZE == 8192
P9_MAX_MSIZE == 65536

P9_RLERROR == 7
P9_TSTATFS == 8
P9_TLOPEN == 12
P9_TLCREATE == 14
P9_TSYMLINK == 16
P9_TREADLINK == 22
P9_TGETATTR == 24
P9_TSETATTR == 26
P9_TREADDIR == 40
P9_TFSYNC == 50
P9_TLINK == 70
P9_TMKDIR == 72
P9_TRENAMEAT == 74
P9_TUNLINKAT == 76
P9_TVERSION == 100
P9_TATTACH == 104
P9_RFLUSH == 109
P9_TWALK == 110
P9_TREAD == 116
P9_TWRITE == 118
P9_TCLUNK == 120
P9_TREMOVE == 122

P9_EPERM == 1
P9_ENOENT == 2
P9_EIO == 5
P9_ENXIO == 6
P9_EACCES == 13
P9_EEXIST == 17
P9_EXDEV == 18
P9_ENODEV == 19
P9_ENOTDIR == 20
P9_EISDIR == 21
P9_EINVAL == 22
P9_ENFILE == 23
P9_EMFILE == 24
P9_ENOSPC == 28
P9_ESPIPE == 29
P9_EROFS == 30
P9_ENAMETOOLONG == 36
P9_ENOTEMPTY == 39
P9_ENODATA == 61
P9_EOVERFLOW == 75
P9_EOPNOTSUPP == 95

\* ---------------------------------------------------------------- helpers
SetMin(S) == CHOOSE x \in S : \A y \in S : x <= y

Threads == 1..NumThreads
NoThread == 0

\* ------------------------------------------------------------------ inputs
\* msize values the client is initialised with (P9Client::Init).
ClientMsizes == {P9_DEFAULT_MSIZE, P9_MAX_MSIZE}
\* msize values a server answers in Rversion.
SmallMsize == 8
ServerMsizes == {SmallMsize, P9_DEFAULT_MSIZE, P9_MAX_MSIZE}
\* Lengths of the aname mount option.
AnameLen == 4
\* An aname as long as a default-sized request buffer.
LongAname == P9_DEFAULT_MSIZE
AnameLens == {0, AnameLen, LongAname}
\* The concurrent specification connects to one well-behaved server.
WireAnames == {0}
WireServers == {P9_DEFAULT_MSIZE}
\* The volume layer mounts with the default (empty) aname.
VfsAnames == {0}
VfsServers == {SmallMsize, P9_DEFAULT_MSIZE}
\* Types of the files a lookup finds below the root: regular files.
ChildIsDir == {FALSE}
\* A server whose msize gives an iounit of ChunkLen, and the default one.
IoServers == {ChunkLen + P9_HEADER_SIZE + 4, P9_DEFAULT_MSIZE}
IoPositions == {-1, IoPos}
IoLens == {0, SmallLen, ChunkLen, ExampleLen}

\* The directory the server lists: qid.path, continuation offset and name
\* of each entry, in the server's order.
Listing ==
    << [path |-> 2, offset |-> 1, name |-> "test.txt", nameLen |-> 8],
       [path |-> 3, offset |-> 2, name |-> "sub", nameLen |-> 3],
       [path |-> 5, offset |-> 3, name |-> "a.out", nameLen |-> 5] >>
\* offsetof(struct dirent, d_name)
DirentNameOffset == 26
\* size_t recLen = offsetof(struct dirent, d_name) + nameLen + 1;
RecLen(e) == DirentNameOffset + e.nameLen + 1
\* Bytes of one entry of an Rreaddir: qid[13] offset[8] type[1] name[s].
WireLen(e) == P9_QID_SIZE + 8 + 1 + 2 + e.nameLen
\* Arguments of ReadDir: *_num, and a bufferSize that holds the shortest
\* dirent only, the first dirent only, or the whole listing.
MaxCounts == {0, 1, MaxNum}
OutSizes == {RecLen(Listing[2]), RecLen(Listing[1]), BigOut}

\* ------------------------------------------------------------- VFS objects
Inos == 1..MaxIno
CookieSlots == 1..MaxCookies
NoInode == [fid |-> P9_NOFID, isDir |-> FALSE, live |-> FALSE]
NoCookie == [fid |-> P9_NOFID, ino |-> 0, kind |-> "none"]
\* The locals of a running Inode::Read or Inode::Write: the arguments (fid of
\* the cookie, pos, *_length on entry), remaining and totalRead /
\* totalWritten, the number n of transactions made, the offset and count of
\* the latest request, the count its reply carried (got) and how that
\* compared with the count asked (cls; before: the same for every earlier
\* reply), and on return the status and *_length (ret).
NoIo == [pc |-> "idle", kind |-> "none", fid |-> P9_NOFID, pos |-> 0,
         len |-> 0, remaining |-> 0, total |-> 0, n |-> 0, offset |-> 0,
         count |-> 0, got |-> 0, cls |-> "none", before |-> {},
         status |-> "B_OK", ret |-> 0]

\* A DirCookie: offset, the entries its buffer holds, bufferSize, bufferPos
\* and eof; and, as history, the entries the ReadDir calls that returned
\* B_OK have emitted since OpenDir or RewindDir (out), whether no call
\* failed after filling dirents (clean) and the state RewindDir last found
\* the cookie in (rewound).
NoDir == [offset |-> 0, buf |-> <<>>, bufferSize |-> 0, bufferPos |-> 0,
          eof |-> FALSE, out |-> <<>>, clean |-> TRUE, rewound |-> "never"]
\* The locals of a running Inode::ReadDir: the cookie (k), maxCount, the
\* bufferSize left (room), count, the Treaddir requests made (n) and the
\* offset of the latest and the count it was made at (reqAt), the dirents
\* filled in (emitted); whether the cookie was at EOF on entry (eof0) and
\* how many dirents it had emitted (out0), whether an entry did not fit behind
\* dirents already filled in (full) and the requests made after that
\* (afterFull); on return the status and *_num (ret).
NoRd == [pc |-> "idle", k |-> 0, maxCount |-> 0, room |-> 0, count |-> 0,
         n |-> 0, reqOffset |-> 0, reqAt |-> 0, emitted |-> <<>>,
         eof0 |-> FALSE, out0 |-> 0,
         full |-> FALSE, afterFull |-> 0, status |-> "B_OK", ret |-> 0]

\* -------------------------------------------------------------- variables
VARIABLES
    tagBitmap,      \* TagPool::fBitmap, as the set of tags in use
    tagNextHint,    \* TagPool::fNextHint
    fRequestLock,   \* P9Client::fRequestLock: NoThread or the holder
    reqBuf,         \* the transport's request buffer (last frame sent)
    pc,             \* per thread: position inside the client operation
    op,             \* per thread: T-code of the operation it runs
    req,            \* per thread: header of the request it built
    resp,           \* per thread: header of the response it received
    status,         \* per thread: status_t the operation returned
    fidBitmap,      \* FidPool::fBitmap, as the set of FIDs in use
    fidNextHint,    \* FidPool::fNextHint
    fMsize,         \* P9Client::fMsize
    fIOUnit,        \* P9Client::fIOUnit
    fRootFid,       \* P9Client::fRootFid
    fConnected,     \* P9Client::fConnected
    serverFids,     \* FIDs bound on the server (Attach/Walk, until Clunk)
    vstate,         \* life cycle of the volume
    fReadOnly,      \* Volume::fReadOnly
    vnodes,         \* the VFS vnode cache: inode id -> Inode or NoInode
    cookies,        \* live FileCookie / DirCookie objects, by slot
    io,             \* the Inode::Read / Inode::Write call in progress
    dirs,           \* the fields of the live DirCookie objects, by slot
    rd,             \* the Inode::ReadDir call in progress
    fLock,          \* Inode::fLock of the root inode: NoThread or the holder
    hook,           \* per thread: the Inode operation it runs on that inode
    fStatValid,     \* Inode::fStatValid of the root inode
    codec,          \* a P9Message buffer, the values written and read back
    pcall,          \* the pools' mutexes and each thread's Allocate / Release
    transport,      \* the virtio transport: semaphore, queue, ReceiveMessage
    last            \* record of the last whole handler that ran

poolVars == <<tagBitmap, tagNextHint>>
threadVars == <<pc, op, req, resp, status>>
wireVars == <<fRequestLock, reqBuf>>
clientVars == <<fidBitmap, fidNextHint, fMsize, fIOUnit, fRootFid, fConnected,
                serverFids>>
dirVars == <<dirs, rd>>
lockVars == <<fLock, hook, fStatValid>>
vfsVars == <<vstate, fReadOnly, vnodes, cookies, io, dirVars, lockVars, codec,
             pcall, transport>>
vars == <<tagBitmap, tagNextHint, fRequestLock, reqBuf, pc, op, req, resp,
          status, fidBitmap, fidNextHint, fMsize, fIOUnit, fRootFid,
          fConnected, serverFids, vstate, fReadOnly, vnodes, cookies, io,
          dirs, rd, fLock, hook, fStatValid, codec, pcall, transport, last>>

\* ------------------------------------------------------------- error table
p9_error_to_haiku(error) ==
    CASE error = 0 -> "B_OK"
      [] error = P9_EPERM -> "B_PERMISSION_DENIED"
      [] error = P9_ENOENT -> "B_ENTRY_NOT_FOUND"
      [] error = P9_EIO -> "B_IO_ERROR"
      [] error = P9_ENXIO -> "B_DEV_NOT_READY"
      [] error = P9_EACCES -> "B_PERMISSION_DENIED"
      [] error = P9_EEXIST -> "B_FILE_EXISTS"
      [] error = P9_EXDEV -> "B_CROSS_DEVICE_LINK"
      [] error = P9_ENODEV -> "B_DEV_NOT_READY"
      [] error = P9_ENOTDIR -> "B_NOT_A_DIRECTORY"
      [] error = P9_EISDIR -> "B_IS_A_DIRECTORY"
      [] error = P9_EINVAL -> "B_BAD_VALUE"
      [] error = P9_ENFILE -> "B_NO_MORE_FDS"
      [] error = P9_EMFILE -> "B_NO_MORE_FDS"
      [] error = P9_ENOSPC -> "B_DEVICE_FULL"
      [] error = P9_ESPIPE -> "B_BAD_VALUE"
      [] error = P9_EROFS -> "B_READ_ONLY_DEVICE"
      [] error = P9_ENAMETOOLONG -> "B_NAME_TOO_LONG"
      [] error = P9_ENOTEMPTY -> "B_DIRECTORY_NOT_EMPTY"
      [] error = P9_ENODATA -> "B_ENTRY_NOT_FOUND"
      [] error = P9_EOVERFLOW -> "B_BUFFER_OVERFLOW"
      [] error = P9_EOPNOTSUPP -> "B_NOT_SUPPORTED"
      [] OTHER -> "B_ERROR"

\* ---------------------------------------------------------------- TagPool
\* TagPool::Allocate: next fit from the hint; P9_NOTAG when every slot is set.
TagPoolAllocate(bitmap, hint) ==
    LET free == { i \in 0..(MaxTags - 1) : ((hint + i) % MaxTags) \notin bitmap }
    IN  IF free = {}
        THEN [tag |-> P9_NOTAG, bitmap |-> bitmap, hint |-> hint]
        ELSE LET tag == (hint + SetMin(free)) % MaxTags
             IN  [tag |-> tag, bitmap |-> bitmap \cup {tag},
                  hint |-> (tag + 1) % MaxTags]

TagPoolRelease_Leak(bitmap, tag) == bitmap

\* TagPool::Release: out-of-range values and P9_NOTAG are ignored.
TagPoolRelease(bitmap, tag) ==
    IF tag >= MaxTags \/ tag = P9_NOTAG THEN bitmap ELSE bitmap \ {tag}

\* ------------------------------------------------------ client operations
\* Operations whose success reply is parsed after a response-type check.
TypedOps == {P9_TWALK, P9_TLOPEN, P9_TLCREATE, P9_TREAD, P9_TWRITE,
             P9_TGETATTR, P9_TREADDIR, P9_TMKDIR, P9_TSTATFS, P9_TREADLINK,
             P9_TSYMLINK}
\* Operations that return the result of CheckError directly.
UntypedOps == {P9_TCLUNK, P9_TREMOVE, P9_TSETATTR, P9_TUNLINKAT,
               P9_TRENAMEAT, P9_TFSYNC, P9_TLINK}
AllOps == TypedOps \cup UntypedOps
\* The operations the concurrent specification draws from.
WireOps == {P9_TWALK}

NoMsg == [type |-> 0, tag |-> 0, errno |-> 0, owner |-> NoThread]

\* Errno values an Rlerror may carry in the model.
ErrnoSet == {0, P9_ENOENT}
\* The errno values p9_error_to_haiku has a case for, and one it has not.
KnownErrnos ==
    {P9_EPERM, P9_ENOENT, P9_EIO, P9_ENXIO, P9_EACCES, P9_EEXIST, P9_EXDEV,
     P9_ENODEV, P9_ENOTDIR, P9_EISDIR, P9_EINVAL, P9_ENFILE, P9_EMFILE,
     P9_ENOSPC, P9_ESPIPE, P9_EROFS, P9_ENAMETOOLONG, P9_ENOTEMPTY,
     P9_ENODATA, P9_EOVERFLOW, P9_EOPNOTSUPP}
AllErrnos == KnownErrnos \cup {0, UnknownErrno}

\* A response type that is neither Rlerror nor the expected R-code.
WrongType(t) == IF t = P9_TWALK THEN P9_RFLUSH ELSE P9_TWALK + 1
\* A tag different from the one sent.
OtherTag(tag) == (tag + 1) % 65536

\* Every response frame the device may produce for the request in the
\* transport's request buffer.
Responses(r) ==
    { [type |-> ty, tag |-> tg, errno |-> 0, owner |-> r.owner] :
        ty \in {r.type + 1, WrongType(r.type)}, tg \in {r.tag, OtherTag(r.tag)} }
    \cup
    { [type |-> P9_RLERROR, tag |-> tg, errno |-> e, owner |-> r.owner] :
        tg \in {r.tag, OtherTag(r.tag)}, e \in ErrnoSet }

\* P9Client::CheckError: only an Rlerror yields an error; the tag read from
\* the header is not looked at.
CheckError(r) ==
    IF r.type = P9_RLERROR THEN p9_error_to_haiku(r.errno) ELSE "B_OK"

\* Status of a client operation once DoRequest returned B_OK with response r.
OpResult(o, r) ==
    LET s == CheckError(r)
    IN  IF s # "B_OK" THEN s
        ELSE IF o \in TypedOps /\ r.type # o + 1 THEN "B_ERROR"
        ELSE "B_OK"

CanLock_NoMutex == TRUE

\* MutexLocker locker(&fRequestLock) can proceed.
CanLock == fRequestLock = NoThread

\* ------------------------------------------------------- uint32 arithmetic
\* uint32 values are held in two's-complement form (a value of 2^31 or more
\* is the negative integer with the same bit pattern).
ULess(a, b) == IF (a >= 0) = (b >= 0) THEN a < b ELSE b < 0
ULeq(a, b) == a = b \/ ULess(a, b)

\* ---------------------------------------------------------------- FidPool
FidPoolAllocate_Blind(bitmap, hint) ==
    [fid |-> hint, bitmap |-> bitmap \cup {hint}, hint |-> (hint + 1) % MaxFids]

\* FidPool::Allocate: next fit from the hint; P9_NOFID when every slot is set.
FidPoolAllocate(bitmap, hint) ==
    LET free == { i \in 0..(MaxFids - 1) : ((hint + i) % MaxFids) \notin bitmap }
    IN  IF free = {}
        THEN [fid |-> P9_NOFID, bitmap |-> bitmap, hint |-> hint]
        ELSE LET fid == (hint + SetMin(free)) % MaxFids
             IN  [fid |-> fid, bitmap |-> bitmap \cup {fid},
                  hint |-> (fid + 1) % MaxFids]

FidPoolRelease_Leak(bitmap, fid) == bitmap

\* FidPool::Release: values outside the pool (P9_NOFID included) are ignored.
FidPoolRelease(bitmap, fid) ==
    IF fid = P9_NOFID \/ fid >= MaxFids THEN bitmap ELSE bitmap \ {fid}

\* ------------------------------------------------------------ frame sizes
\* Size of the version string "9P2000.L".
VersionLen == 8
\* Bytes a builder writes when every name it is given is empty.
MinFrameSize(type) ==
    CASE type = P9_TVERSION -> P9_HEADER_SIZE + 4 + 2 + VersionLen
      [] type = P9_TATTACH -> P9_HEADER_SIZE + 4 + 4 + 2 + 2 + 4
      [] type = P9_TWALK -> P9_HEADER_SIZE + 4 + 4 + 2
      [] type = P9_TLOPEN -> P9_HEADER_SIZE + 4 + 4
      [] type = P9_TLCREATE -> P9_HEADER_SIZE + 4 + 2 + 4 + 4 + 4
      [] type = P9_TREAD -> P9_HEADER_SIZE + 4 + 8 + 4
      [] type = P9_TWRITE -> P9_HEADER_SIZE + 4 + 8 + 4
      [] type = P9_TCLUNK -> P9_HEADER_SIZE + 4
      [] type = P9_TREMOVE -> P9_HEADER_SIZE + 4
      [] type = P9_TGETATTR -> P9_HEADER_SIZE + 4 + 8
      [] type = P9_TSETATTR -> P9_HEADER_SIZE + 4 + 4 + 4 + 4 + 4 + 8 + 32
      [] type = P9_TREADDIR -> P9_HEADER_SIZE + 4 + 8 + 4
      [] type = P9_TMKDIR -> P9_HEADER_SIZE + 4 + 2 + 4 + 4
      [] type = P9_TUNLINKAT -> P9_HEADER_SIZE + 4 + 2 + 4
      [] type = P9_TRENAMEAT -> P9_HEADER_SIZE + 4 + 2 + 4 + 2
      [] type = P9_TSTATFS -> P9_HEADER_SIZE + 4
      [] type = P9_TFSYNC -> P9_HEADER_SIZE + 4 + 4
      [] type = P9_TREADLINK -> P9_HEADER_SIZE + 4
      [] type = P9_TSYMLINK -> P9_HEADER_SIZE + 4 + 2 + 2 + 4
      [] type = P9_TLINK -> P9_HEADER_SIZE + 4 + 4 + 2

\* The builder of a frame of n bytes succeeds in a buffer of capacity cap
\* (P9Buffer::WriteUintN: fWritePos + N > fCapacity fails).
Fits(n, cap) == cap >= 0 /\ n <= cap

\* ------------------------------------------- client operations, in sequence
\* A whole handler threads a context through the client calls it makes:
\* the two pools, the server's bindings and the frames handed to the wire.
Ctx == [fb |-> fidBitmap, fh |-> fidNextHint, tb |-> tagBitmap,
        th |-> tagNextHint, sf |-> serverFids, sent |-> <<>>,
        fault |-> FALSE, partial |-> FALSE, stray |-> FALSE]

\* What one transaction may come to: the expected reply, an Rlerror, a reply
\* of another type, no memory for the request, or a transport failure on
\* either half.
RpcOutcomes == {"ok", "lerror", "badtype", "nomem", "sendfail", "recvfail"}

Frame(type, tag, fid, newfid, size) ==
    [type |-> type, tag |-> tag, fid |-> fid, newfid |-> newfid, size |-> size]

\* The response header delivered for outcome out.
Reply(type, tag, out) ==
    [type |-> CASE out \in {"ok", "partial"} -> type + 1
                [] out = "lerror" -> P9_RLERROR
                [] OTHER -> WrongType(type),
     tag |-> tag,
     errno |-> IF out = "lerror" THEN P9_ENOENT ELSE 0,
     owner |-> NoThread]

\* Bindings of the server after it processed frame fr and answered out.
ServerEffect(sf, fr, out) ==
    CASE fr.type \in {P9_TCLUNK, P9_TREMOVE} -> sf \ {fr.fid}
      [] fr.type = P9_TATTACH /\ out = "ok" -> sf \cup {fr.fid}
      [] fr.type = P9_TWALK /\ out = "ok" -> sf \cup {fr.newfid}
      [] OTHER -> sf

\* Frame fr names a subject FID the server has not bound.  Tversion carries
\* no FID and Tattach names the FID it is about to bind.
Stray(sf, fr) ==
    /\ fr.type \notin {P9_TVERSION, P9_TATTACH}
    /\ fr.fid \notin sf

\* One client operation (the template of WalkPath, Open, Clunk, ...) run to
\* completion by a single caller: Allocate a tag, build, DoRequest, Release
\* the tag, CheckError and the response-type check.
\* extra is the number of bytes the builder writes beyond the fixed fields.
RpcN(c, cap, type, fid, newfid, out, extra) ==
    LET a == TagPoolAllocate(c.tb, c.th)
        built == Fits(MinFrameSize(type) + extra, cap)
        fr == Frame(type, a.tag, fid, newfid, MinFrameSize(type) + extra)
        delivered == built /\ out # "sendfail"
        got == delivered /\ out # "recvfail"
    IN  IF out = "nomem"
        THEN [c |-> [c EXCEPT !.fault = TRUE], status |-> "B_NO_MEMORY"]
        ELSE
        [c |-> [c EXCEPT !.tb = TagPoolRelease(a.bitmap, a.tag),
                         !.th = a.hint,
                         !.sent = IF delivered THEN Append(@, fr) ELSE @,
                         !.sf = IF delivered THEN ServerEffect(@, fr, out)
                                ELSE @,
                         !.fault = @ \/ ~got,
                         !.stray = @ \/ (delivered /\ Stray(c.sf, fr))],
         status |-> IF ~built THEN "B_BUFFER_OVERFLOW"
                    ELSE IF ~got THEN "B_IO_ERROR"
                    ELSE OpResult(type, Reply(type, a.tag, out))]

\* A transaction whose request carries the fixed fields only.
Rpc(c, cap, type, fid, newfid, out) == RpcN(c, cap, type, fid, newfid, out, 0)

\* The header of the last frame of a context, as the transport keeps it.
LastSent(c, old) ==
    IF c.sent = <<>> THEN old
    ELSE [type |-> c.sent[Len(c.sent)].type, tag |-> c.sent[Len(c.sent)].tag,
          errno |-> 0, owner |-> NoThread]

\* A whole handler stores the context it ended with.
Commit(c) ==
    /\ fidBitmap' = c.fb
    /\ fidNextHint' = c.fh
    /\ tagBitmap' = c.tb
    /\ tagNextHint' = c.th
    /\ serverFids' = c.sf
    /\ reqBuf' = LastSent(c, reqBuf)

AllIdle == \A t \in Threads : pc[t] = "idle"

\* ------------------------------------------------------ Connect, Disconnect
\* The client's own fields, threaded through a whole handler.
ClientState == [msize |-> fMsize, iounit |-> fIOUnit, root |-> fRootFid,
                connected |-> fConnected]

SetClient(st) ==
    /\ fMsize' = st.msize
    /\ fIOUnit' = st.iounit
    /\ fRootFid' = st.root
    /\ fConnected' = st.connected

\* Difference of two uint32 values; in two's-complement form the wrapped
\* result of a - b is the signed difference.
U32Sub(a, b) == a - b

NegotiatedMsize_Server(client, server) == server

\* if (serverMsize < fMsize) fMsize = serverMsize;
NegotiatedMsize(client, server) ==
    IF ULess(server, client) THEN server ELSE client

\* Bytes of an Rattach frame: header and one qid.
RattachSize == P9_HEADER_SIZE + P9_QID_SIZE

\* ------------------------------------------------------------ wire strings
\* A 9P string is a two-byte length and that many bytes, held here as the
\* sequence of its bytes.  "9P2000.L" in ASCII:
P9_VERSION_9P2000_L == <<57, 80, 50, 48, 48, 48, 46, 76>>
\* sizeof(version) in P9Client::Connect.
VersionBufSize == 32

\* The C string that starts at the first byte of s: the bytes before its
\* first NUL.
CStr(s) ==
    LET nul == { i \in 1..Len(s) : s[i] = 0 }
    IN  IF nul = {} THEN s ELSE SubSeq(s, 1, SetMin(nul) - 1)

\* strcmp(a, b) == 0 on buffers that hold a and b followed by a NUL.
StrEq(a, b) == CStr(a) = CStr(b)

\* P9Buffer::ReadString of a string that lies whole inside the frame:
\* B_NAME_TOO_LONG unless it fits the buffer with its terminator.
ReadString(s, bufferSize) ==
    IF Len(s) >= bufferSize THEN "B_NAME_TOO_LONG" ELSE "B_OK"

\* Version strings an Rversion may carry: "9P2000.L", "9P2000", "9P2000.L"
\* followed by a NUL and one more byte, and a string of VersionBufSize bytes.
WireVersions ==
    { P9_VERSION_9P2000_L,
      SubSeq(P9_VERSION_9P2000_L, 1, 6),
      P9_VERSION_9P2000_L \o <<0, 88>>,
      [i \in 1..VersionBufSize |-> 57] }

\* What the server may answer to Tversion.
VersionReplies(servers) ==
    { [kind |-> "rversion", msize |-> m, version |-> v] :
        m \in servers, v \in WireVersions }
    \cup { [kind |-> k, msize |-> 0, version |-> <<>>] :
            k \in {"badtype", "short", "sendfail", "recvfail"} }
NoVer == [kind |-> "none", msize |-> 0, version |-> <<>>]

\* What the server may answer to Tattach.
\* A response longer than the response buffer is copied all the same
\* (Virtio9PTransport::ReceiveMessage); the bytes past the allocation either
\* land harmlessly or are lost.
CopyOutcomes == {"intact", "corrupt"}

\* What the server may answer to Tattach, and how an Rattach is copied.
AttachRepliesOf(errnos) ==
    { [kind |-> k, errno |-> 0, copy |-> "intact"] :
        k \in {"badtype", "short", "sendfail", "recvfail"} }
    \cup { [kind |-> "lerror", errno |-> e, copy |-> "intact"] :
            e \in errnos }
    \cup { [kind |-> "rattach", errno |-> 0, copy |-> cp] :
            cp \in CopyOutcomes }
AttachReplies == AttachRepliesOf(ErrnoSet)
NoAtt == [kind |-> "none", errno |-> 0, copy |-> "intact"]

\* Connect returns s; stage tells which replies DoRequest handed to it.
ConnectFail(c, st, s, stage) ==
    [c |-> c, st |-> st, status |-> s, stage |-> stage]

\* P9Client::Connect(aname), n the length of aname.
ConnectOp(c, st, n, ver, att) ==
    IF st.connected THEN ConnectFail(c, st, "B_OK", "none")
    ELSE
    LET cap == st.msize
        vf == Frame(P9_TVERSION, P9_NOTAG, P9_NOFID, P9_NOFID,
                    MinFrameSize(P9_TVERSION))
        \* a Tversion the server received starts a new session
        c1 == [c EXCEPT !.sent = Append(@, vf), !.sf = {}]
        m == NegotiatedMsize(st.msize, ver.msize)
        st1 == [st EXCEPT !.msize = m]
        a == FidPoolAllocate(c1.fb, c1.fh)
        st2 == [st1 EXCEPT !.root = a.fid]
        t == TagPoolAllocate(c1.tb, c1.th)
        af == Frame(P9_TATTACH, t.tag, a.fid, P9_NOFID,
                    MinFrameSize(P9_TATTACH) + n)
        \* both handles returned to their pools
        c2 == [c1 EXCEPT !.fb = FidPoolRelease(a.bitmap, a.fid), !.fh = a.hint,
                         !.tb = TagPoolRelease(t.bitmap, t.tag), !.th = t.hint]
        c3 == [c2 EXCEPT !.sent = Append(@, af)]
        overflow == ULess(m, RattachSize)
    IN  IF ~Fits(vf.size, cap) THEN ConnectFail(c, st, "B_BUFFER_OVERFLOW", "none")
        ELSE IF ver.kind = "sendfail" THEN ConnectFail(c, st, "B_IO_ERROR", "none")
        ELSE IF ver.kind = "recvfail"
             THEN ConnectFail(c1, st, "B_IO_ERROR", "none")
        ELSE IF ver.kind = "badtype" THEN ConnectFail(c1, st, "B_ERROR", "version")
        ELSE IF ver.kind = "short"
             THEN ConnectFail(c1, st, "B_BUFFER_OVERFLOW", "version")
        ELSE IF ReadString(ver.version, VersionBufSize) # "B_OK"
             THEN ConnectFail(c1, st, ReadString(ver.version, VersionBufSize),
                              "version")
        ELSE IF ~StrEq(ver.version, P9_VERSION_9P2000_L)
             THEN ConnectFail(c1, st1, "B_NOT_SUPPORTED", "version")
        ELSE IF a.fid = P9_NOFID THEN ConnectFail(c1, st2, "B_NO_MEMORY", "version")
        ELSE IF ~Fits(af.size, cap)
             THEN ConnectFail(c2, st2, "B_BUFFER_OVERFLOW", "version")
        ELSE IF att.kind = "sendfail" THEN ConnectFail(c2, st2, "B_IO_ERROR", "version")
        ELSE IF att.kind = "recvfail" THEN ConnectFail(c3, st2, "B_IO_ERROR", "version")
        ELSE IF att.kind = "lerror"
             THEN ConnectFail(c3, st2, p9_error_to_haiku(att.errno), "attach")
        ELSE IF att.kind = "badtype" THEN ConnectFail(c3, st2, "B_ERROR", "attach")
        ELSE IF att.kind = "short"
             THEN ConnectFail(c3, st2, "B_BUFFER_OVERFLOW", "attach")
        ELSE IF overflow /\ att.copy = "corrupt"
             THEN ConnectFail([c3 EXCEPT !.sf = @ \cup {a.fid}], st2,
                              "B_BUFFER_OVERFLOW", "attach")
        ELSE [c |-> [c3 EXCEPT !.fb = a.bitmap, !.sf = @ \cup {a.fid}],
              st |-> [st2 EXCEPT !.iounit = U32Sub(m, P9_HEADER_SIZE + 4),
                                 !.connected = TRUE],
              status |-> "B_OK", stage |-> "attach"]

\* P9Client::Disconnect(); clunk is the status of Clunk(fRootFid), which the
\* function does not look at.
DisconnectOp(c, st, out) ==
    IF ~st.connected THEN [c |-> c, st |-> st, clunk |-> "B_OK"]
    ELSE LET r == Rpc(c, st.msize, P9_TCLUNK, st.root, P9_NOFID, out)
         IN  [c |-> [r.c EXCEPT !.fb = FidPoolRelease(@, st.root)],
              st |-> [st EXCEPT !.connected = FALSE],
              clunk |-> r.status]

\* The record a whole handler leaves behind.
NoLast == [op |-> "none", status |-> "B_OK", sent |-> <<>>, fid |-> P9_NOFID,
           bound |-> FALSE, fault |-> FALSE, msize0 |-> 0, ver |-> NoVer,
           att |-> NoAtt, was |-> FALSE, fids0 |-> {}, partial |-> FALSE,
           stray |-> FALSE]

\* A caller runs Connect while no client operation is executing; atts are
\* the answers the server may give to Tattach.
ConnectWith(anames, servers, atts) ==
    /\ AllIdle
    /\ CanLock
    /\ \E n \in anames, ver \in VersionReplies(servers), att \in atts :
        \E r \in {ConnectOp(Ctx, ClientState, n, ver, att)} :
            /\ Commit(r.c)
            /\ SetClient(r.st)
            /\ last' = [NoLast EXCEPT !.op = "Connect", !.status = r.status,
                    !.sent = r.c.sent, !.msize0 = fMsize,
                    !.was = fConnected, !.fids0 = fidBitmap,
                    !.ver = IF r.stage = "none" THEN NoVer ELSE ver,
                    !.att = IF r.stage # "attach" THEN NoAtt
                            ELSE IF ULess(r.st.msize, RattachSize) THEN att
                            ELSE [att EXCEPT !.copy = "intact"]]
    /\ UNCHANGED <<fRequestLock, threadVars, vfsVars>>

Connect(anames, servers) == ConnectWith(anames, servers, AttachReplies)

\* A caller runs Disconnect while no client operation is executing.
Disconnect ==
    /\ AllIdle
    /\ CanLock
    /\ \E out \in RpcOutcomes :
        \E r \in {DisconnectOp(Ctx, ClientState, out)} :
            /\ Commit(r.c)
            /\ SetClient(r.st)
            /\ last' = [NoLast EXCEPT !.op = "Disconnect",
                            !.status = r.clunk,
                            !.sent = r.c.sent, !.was = fConnected]
    /\ UNCHANGED <<fRequestLock, threadVars, vfsVars>>

\* ----------------------------------------------------------------- actions
\* Entry of a client operation: P9Message request(fMsize); request.Init().
\* l is the record of the previous handler the observer keeps.
OpBeginL(t, ops, l) ==
    /\ pc[t] = "idle"
    /\ \E o \in ops, ok \in BOOLEAN :
        /\ op' = [op EXCEPT ![t] = o]
        /\ IF ok
           THEN /\ pc' = [pc EXCEPT ![t] = "alloc"]
                /\ status' = status
           ELSE /\ pc' = [pc EXCEPT ![t] = "done"]
                /\ status' = [status EXCEPT ![t] = "B_NO_MEMORY"]
    /\ last' = l
    /\ UNCHANGED <<req, resp, poolVars, wireVars>>
    /\ UNCHANGED <<clientVars, vfsVars>>

OpBegin(t, ops) == OpBeginL(t, ops, NoLast)

\* uint16 tag = fTagPool.Allocate();
OpAllocTag(t) ==
    /\ pc[t] = "alloc"
    /\ LET r == TagPoolAllocate(tagBitmap, tagNextHint)
       IN  /\ tagBitmap' = r.bitmap
           /\ tagNextHint' = r.hint
           /\ req' = [req EXCEPT ![t] = [type |-> op[t], tag |-> r.tag,
                                         errno |-> 0, owner |-> t]]
    /\ pc' = [pc EXCEPT ![t] = "build"]
    /\ UNCHANGED <<op, resp, status, wireVars>>
    /\ UNCHANGED <<clientVars, vfsVars, last>>

\* request.BuildX(tag, ...): on failure the tag is released and the
\* operation returns.
OpBuild(t) ==
    /\ pc[t] = "build"
    /\ \E ok \in BOOLEAN :
        IF ok /\ Fits(MinFrameSize(op[t]), fMsize)
        THEN /\ pc' = [pc EXCEPT ![t] = "lock"]
             /\ UNCHANGED <<status, poolVars>>
        ELSE /\ tagBitmap' = TagPoolRelease(tagBitmap, req[t].tag)
             /\ status' = [status EXCEPT ![t] = "B_BUFFER_OVERFLOW"]
             /\ pc' = [pc EXCEPT ![t] = "done"]
             /\ UNCHANGED tagNextHint
    /\ UNCHANGED <<op, req, resp, wireVars>>
    /\ UNCHANGED <<clientVars, vfsVars, last>>

\* DoRequest, first half: take fRequestLock, fTransport->SendMessage.
DoRequestSend(t) ==
    /\ pc[t] = "lock"
    /\ CanLock
    /\ \E ok \in BOOLEAN :
        IF ok
        THEN /\ reqBuf' = req[t]
             /\ fRequestLock' = t
             /\ pc' = [pc EXCEPT ![t] = "recv"]
             /\ UNCHANGED status
        ELSE /\ UNCHANGED <<reqBuf, fRequestLock>>
             /\ status' = [status EXCEPT ![t] = "B_IO_ERROR"]
             /\ pc' = [pc EXCEPT ![t] = "release"]
    /\ UNCHANGED <<op, req, resp, poolVars>>
    /\ UNCHANGED <<clientVars, vfsVars, last>>

\* DoRequest, second half: fTransport->ReceiveMessage into a fresh response,
\* then the locker goes out of scope.
DoRequestReceive(t) ==
    /\ pc[t] = "recv"
    /\ \/ \E r \in Responses(reqBuf) :
            /\ resp' = [resp EXCEPT ![t] = r]
            /\ status' = [status EXCEPT ![t] = "B_OK"]
       \/ /\ resp' = resp
          /\ status' = [status EXCEPT ![t] = "B_IO_ERROR"]
    /\ fRequestLock' = NoThread
    /\ pc' = [pc EXCEPT ![t] = "release"]
    /\ UNCHANGED <<op, req, reqBuf, poolVars>>
    /\ UNCHANGED <<clientVars, vfsVars, last>>

OpFinish_Drops(t) ==
    /\ pc[t] = "release"
    /\ tagBitmap' = TagPoolRelease(tagBitmap, req[t].tag)
    /\ status' = [status EXCEPT ![t] =
            IF status[t] # "B_OK" THEN status[t] ELSE OpResult(op[t], resp[t])]
    /\ pc' = [pc EXCEPT ![t] = "done"]
    /\ fConnected' = (fConnected /\ status'[t] = "B_OK")
    /\ UNCHANGED <<op, req, resp, tagNextHint, wireVars>>
    /\ UNCHANGED <<fidBitmap, fidNextHint, fMsize, fIOUnit, fRootFid,
                   serverFids, vfsVars, last>>

\* fTagPool.Release(tag) right after DoRequest, then CheckError and the
\* response-type check.
OpFinish(t) ==
    /\ pc[t] = "release"
    /\ tagBitmap' = TagPoolRelease(tagBitmap, req[t].tag)
    /\ status' = [status EXCEPT ![t] =
            IF status[t] # "B_OK" THEN status[t] ELSE OpResult(op[t], resp[t])]
    /\ pc' = [pc EXCEPT ![t] = "done"]
    /\ UNCHANGED <<op, req, resp, tagNextHint, wireVars>>
    /\ UNCHANGED <<clientVars, vfsVars, last>>

\* The operation returns to its caller, who is left with the record l.
OpReturnL(t, l) ==
    /\ pc[t] = "done"
    /\ pc' = [pc EXCEPT ![t] = "idle"]
    /\ op' = [op EXCEPT ![t] = 0]
    /\ req' = [req EXCEPT ![t] = NoMsg]
    /\ resp' = [resp EXCEPT ![t] = NoMsg]
    /\ status' = [status EXCEPT ![t] = "B_OK"]
    /\ last' = l
    /\ UNCHANGED <<poolVars, wireVars>>
    /\ UNCHANGED <<clientVars, vfsVars>>

OpReturn(t) == OpReturnL(t, last)

\* What the caller of a client operation is left with: the status, and
\* whether the operation ended without a response (no memory, no room in the
\* frame, a transport failure).
Returned(t) ==
    [NoLast EXCEPT !.op = "ClientOp", !.status = status[t],
                   !.fault = resp[t] = NoMsg]

\* --------------------------------------------------- volume and inode layer
\* Outcomes drawn for the transactions of a VFS hook.
VfsOutcomes == {"ok", "lerror", "sendfail"}
\* A walk to a name may also stop short: Rwalk with fewer qids than names.
WalkOutcomes == VfsOutcomes \cup {"partial", "nomem"}
\* Where Volume::GetInode may fail besides its transactions.
GetInodeFails == {"none", "nomem", "publish"}
\* The runs of Volume::GetInode: where it fails, the outcome g1 of its first
\* transaction and the outcome g2 of the clunk in the inode's destructor.
GetInodeRuns(hit) ==
    IF hit
    THEN { [fail |-> "none", g1 |-> o, g2 |-> "ok"] : o \in VfsOutcomes }
    ELSE { [fail |-> "nomem", g1 |-> o, g2 |-> "ok"] : o \in VfsOutcomes }
         \cup { [fail |-> "none", g1 |-> o, g2 |-> p] :
                 o \in VfsOutcomes \ {"ok"}, p \in VfsOutcomes }
         \cup { [fail |-> "publish", g1 |-> "ok", g2 |-> p] :
                 p \in VfsOutcomes }
         \cup { [fail |-> "none", g1 |-> "ok", g2 |-> "ok"] }

FreeSlots == { k \in CookieSlots : cookies[k].kind = "none" }
NoVnodes == [i \in Inos |-> NoInode]
NoCookies == [k \in CookieSlots |-> NoCookie]

ReleaseFid_Keep(c, fid) == c

\* P9Client::ReleaseFid on the context.
ReleaseFid(c, fid) == [c EXCEPT !.fb = FidPoolRelease(@, fid)]

WalkOp_IgnoreShort(c, cap, fid, newfid, out) ==
    LET r == Rpc(c, cap, P9_TWALK, fid, newfid, out)
    IN  [c |-> [r.c EXCEPT !.partial = @ \/ out = "partial"],
         status |-> r.status]

\* P9Client::Walk: a reply that walked fewer names than asked (the context
\* notes that one was received) is B_ENTRY_NOT_FOUND.
WalkOp(c, cap, fid, newfid, out) ==
    LET r == Rpc(c, cap, P9_TWALK, fid, newfid, out)
    IN  [c |-> [r.c EXCEPT !.partial = @ \/ (r.status = "B_OK"
                                              /\ out = "partial")],
         status |-> IF r.status = "B_OK" /\ out = "partial"
                    THEN "B_ENTRY_NOT_FOUND" ELSE r.status]

\* Inode::~Inode: the metadata FID is clunked unless it is the root's or
\* P9_NOFID; the pool is not touched.
InodeDtor(c, cap, root, fid, out) ==
    IF fid # root /\ fid # P9_NOFID
    THEN Rpc(c, cap, P9_TCLUNK, fid, P9_NOFID, out).c
    ELSE c

GetInodeOp_NoCache(c, vn, cap, root, fid, id, isDir, fail, g1, g2) ==
    LET g == Rpc(c, cap, P9_TGETATTR, fid, P9_NOFID, g1)
    IN  IF g.status # "B_OK" \/ fail # "none"
        THEN [c |-> InodeDtor(g.c, cap, root, fid, g2), status |-> "B_ERROR",
              vn |-> vn, hit |-> FALSE]
        ELSE [c |-> g.c, status |-> "B_OK",
              vn |-> [vn EXCEPT ![id] = [fid |-> fid, isDir |-> isDir,
                                         live |-> TRUE]],
              hit |-> FALSE]

\* Volume::GetInode(fid, qid, &inode): qid.path is the inode id; g1 is the
\* outcome of its first transaction, g2 that of the destructor's clunk.
GetInodeOp(c, vn, cap, root, fid, id, isDir, fail, g1, g2) ==
    LET clunked == IF fid # root
                   THEN Rpc(c, cap, P9_TCLUNK, fid, P9_NOFID, g1).c ELSE c
        g == Rpc(c, cap, P9_TGETATTR, fid, P9_NOFID, g1)
    IN  IF vn[id].live
        THEN [c |-> clunked, status |-> "B_OK", vn |-> vn, hit |-> TRUE]
        ELSE IF fail = "nomem"
        THEN [c |-> clunked, status |-> "B_NO_MEMORY", vn |-> vn,
              hit |-> FALSE]
        ELSE IF g.status # "B_OK"
        THEN [c |-> InodeDtor(g.c, cap, root, fid, g2), status |-> g.status,
              vn |-> vn, hit |-> FALSE]
        ELSE IF fail = "publish"
        THEN [c |-> InodeDtor(g.c, cap, root, fid, g2), status |-> "B_ERROR",
              vn |-> vn, hit |-> FALSE]
        ELSE [c |-> g.c, status |-> "B_OK",
              vn |-> [vn EXCEPT ![id] = [fid |-> fid, isDir |-> isDir,
                                         live |-> TRUE]],
              hit |-> FALSE]

\* A hook returns: the pools, the caches and the record of the call.
Done(c, vn, ck, name, s, fid, bound) ==
    /\ Commit(c)
    /\ vnodes' = vn
    /\ cookies' = ck
    /\ last' = [NoLast EXCEPT !.op = name, !.status = s, !.sent = c.sent,
                              !.fid = fid, !.bound = bound,
                              !.fault = c.fault, !.partial = c.partial,
                              !.stray = c.stray]

\* The usual error exit of a hook: Clunk(fid); ReleaseFid(fid); return s.
ClunkRelease(c, vn, ck, name, s, fid) ==
    \E o \in VfsOutcomes :
        \E k \in {Rpc(c, fMsize, P9_TCLUNK, fid, P9_NOFID, o)} :
            Done(ReleaseFid(k.c, fid), vn, ck, name, s, fid, TRUE)

\* What an inode hook leaves alone.
HookFrameBase ==
    UNCHANGED <<fMsize, fIOUnit, fRootFid, fConnected, vstate, fReadOnly,
                threadVars, fRequestLock, io, lockVars, codec, pcall, transport>>
HookFrame == HookFrameBase /\ UNCHANGED dirVars

\* P9Client::AllocateFid on the current pool, and the context after it.
\* (Intermediate results are bound with \E over a singleton so that each is
\* computed once.)
AllocateFid == FidPoolAllocate(fidBitmap, fidNextHint)
Allocated(a) == [Ctx EXCEPT !.fb = a.bitmap, !.fh = a.hint]

\* fs_mount: a new Volume, Volume::Mount, and delete on failure.  servers are
\* the msize values the server may answer, flags the values of
\* B_MOUNT_READ_ONLY the caller may pass.
Mount(servers, flags) ==
    /\ vstate = "unmounted"
    /\ \E ro \in flags, found \in BOOLEAN :
        LET c0 == [fb |-> {0}, fh |-> 1, tb |-> {}, th |-> 0,
                   sf |-> serverFids, sent |-> <<>>, fault |-> FALSE,
                   partial |-> FALSE, stray |-> FALSE]
            st0 == [msize |-> P9_DEFAULT_MSIZE, iounit |-> 0, root |-> 0,
                    connected |-> FALSE]
            Fail(c, st, s) ==
                /\ Done(c, NoVnodes, NoCookies, "Mount", s, st.root, FALSE)
                /\ SetClient(st)
                /\ UNCHANGED <<vstate, fReadOnly>>
        IN  IF ~found THEN Fail(c0, st0, "B_ERROR")
            ELSE \E n \in VfsAnames, ver \in VersionReplies(servers),
                    att \in AttachReplies :
                \E r \in {ConnectOp(c0, st0, n, ver, att)} :
                IF r.status # "B_OK" THEN Fail(r.c, r.st, r.status)
                ELSE \E o1 \in VfsOutcomes, od \in VfsOutcomes :
                    \E g \in {Rpc(r.c, r.st.msize, P9_TGETATTR, r.st.root,
                                  P9_NOFID, o1)} :
                    IF g.status # "B_OK"
                    THEN \E d \in {DisconnectOp(g.c, r.st, od)} :
                            Fail(d.c, d.st, g.status)
                    ELSE \E id \in Inos, run \in GetInodeRuns(FALSE) :
                        \E i \in {GetInodeOp(g.c, NoVnodes, r.st.msize,
                                    r.st.root, r.st.root, id, TRUE, run.fail,
                                    run.g1, run.g2)} :
                        IF i.status # "B_OK"
                        THEN \E d \in {DisconnectOp(i.c, r.st, od)} :
                                Fail(d.c, d.st, i.status)
                        ELSE /\ Done(i.c, i.vn, NoCookies, "Mount", "B_OK",
                                     r.st.root, TRUE)
                             /\ SetClient(r.st)
                             /\ vstate' = "mounted"
                             /\ fReadOnly' = ro
    /\ UNCHANGED <<threadVars, fRequestLock, io, dirVars, lockVars, codec,
                   pcall, transport>>

\* The inode that holds the volume's root FID.
IsRootInode(i) == vnodes[i].live /\ vnodes[i].fid = fRootFid

\* ------------------------------------------------------------------ codec
\* A P9Buffer is its bytes (fWritePos is their number), fCapacity and
\* fReadPos.  uint8 and uint16 values are naturals, uint32 values are in
\* two's-complement form, a uint64 is its two 32-bit halves.
NewBuffer(cap) == [data |-> <<>>, fCapacity |-> cap, fReadPos |-> 0]

\* Byte i of a value in memory order on a little-endian layout
\* (B_HOST_TO_LENDIAN_INTnn followed by memcpy).
Byte(v, i) == (v \div (256 ^ i)) % 256
LE16(v) == <<Byte(v, 0), Byte(v, 1)>>

LE32_BigEndian(v) == <<Byte(v, 3), Byte(v, 2), Byte(v, 1), Byte(v, 0)>>

LE32(v) == <<Byte(v, 0), Byte(v, 1), Byte(v, 2), Byte(v, 3)>>
LE64(v) == LE32(v.lo) \o LE32(v.hi)

\* memcpy out of the buffer followed by B_LENDIAN_TO_HOST_INTnn.
U16At(d, p) == d[p + 1] + 256 * d[p + 2]
U32At(d, p) ==
    d[p + 1] + 256 * d[p + 2] + 65536 * d[p + 3]
        + 16777216 * (IF d[p + 4] >= 128 THEN d[p + 4] - 256 ELSE d[p + 4])
U64At(d, p) == [lo |-> U32At(d, p), hi |-> U32At(d, p + 4)]

WriteBytes_Partial(b, bytes) ==
    IF Len(b.data) + Len(bytes) > b.fCapacity
    THEN [b |-> [b EXCEPT !.data =
                    @ \o SubSeq(bytes, 1, b.fCapacity - Len(b.data))],
          status |-> "B_BUFFER_OVERFLOW"]
    ELSE [b |-> [b EXCEPT !.data = @ \o bytes], status |-> "B_OK"]

\* The check and the copy every primitive write makes.
WriteBytes(b, bytes) ==
    IF Len(b.data) + Len(bytes) > b.fCapacity
    THEN [b |-> b, status |-> "B_BUFFER_OVERFLOW"]
    ELSE [b |-> [b EXCEPT !.data = @ \o bytes], status |-> "B_OK"]

WriteUint8(b, v) == WriteBytes(b, <<v>>)
WriteUint16(b, v) == WriteBytes(b, LE16(v))
WriteUint32(b, v) == WriteBytes(b, LE32(v))
WriteUint64(b, v) == WriteBytes(b, LE64(v))

\* WriteString(str): the length is strlen(str) as a uint16.
WriteString(b, str) ==
    LET len == Len(str) % 65536
    IN  IF Len(b.data) + 2 + len > b.fCapacity
        THEN [b |-> b, status |-> "B_BUFFER_OVERFLOW"]
        ELSE [b |-> [b EXCEPT !.data = @ \o LE16(len) \o SubSeq(str, 1, len)],
              status |-> "B_OK"]

\* A write that follows another one only if that one returned B_OK.
ThenWrite(r, W(_, _), v) == IF r.status # "B_OK" THEN r ELSE W(r.b, v)

WriteQid(b, qid) ==
    ThenWrite(ThenWrite(WriteUint8(b, qid.type), WriteUint32, qid.version),
              WriteUint64, qid.path)

\* The primitive reads: the check against fWritePos, the value, the cursor.
ReadFail(b, s) == [b |-> b, status |-> s, value |-> "none"]
ReadUint8(b) ==
    IF b.fReadPos + 1 > Len(b.data) THEN ReadFail(b, "B_BUFFER_OVERFLOW")
    ELSE [b |-> [b EXCEPT !.fReadPos = @ + 1], status |-> "B_OK",
          value |-> b.data[b.fReadPos + 1]]
ReadUint16(b) ==
    IF b.fReadPos + 2 > Len(b.data) THEN ReadFail(b, "B_BUFFER_OVERFLOW")
    ELSE [b |-> [b EXCEPT !.fReadPos = @ + 2], status |-> "B_OK",
          value |-> U16At(b.data, b.fReadPos)]
ReadUint32(b) ==
    IF b.fReadPos + 4 > Len(b.data) THEN ReadFail(b, "B_BUFFER_OVERFLOW")
    ELSE [b |-> [b EXCEPT !.fReadPos = @ + 4], status |-> "B_OK",
          value |-> U32At(b.data, b.fReadPos)]
ReadUint64(b) ==
    IF b.fReadPos + 8 > Len(b.data) THEN ReadFail(b, "B_BUFFER_OVERFLOW")
    ELSE [b |-> [b EXCEPT !.fReadPos = @ + 8], status |-> "B_OK",
          value |-> U64At(b.data, b.fReadPos)]

\* ReadString into a caller's buffer of bufferSize bytes: the length is
\* consumed before the two checks.
ReadStringAt(b, bufferSize) ==
    LET l == ReadUint16(b)
    IN  IF l.status # "B_OK" THEN l
        ELSE IF l.b.fReadPos + l.value > Len(b.data)
        THEN ReadFail(l.b, "B_BUFFER_OVERFLOW")
        ELSE IF l.value >= bufferSize THEN ReadFail(l.b, "B_NAME_TOO_LONG")
        ELSE [b |-> [l.b EXCEPT !.fReadPos = @ + l.value], status |-> "B_OK",
              value |-> SubSeq(b.data, l.b.fReadPos + 1,
                               l.b.fReadPos + l.value)]

ReadQid(b) ==
    LET t == ReadUint8(b)
        v == ReadUint32(t.b)
        p == ReadUint64(v.b)
    IN  IF t.status # "B_OK" THEN t
        ELSE IF v.status # "B_OK" THEN v
        ELSE IF p.status # "B_OK" THEN p
        ELSE [b |-> p.b, status |-> "B_OK",
              value |-> [type |-> t.value, version |-> v.value,
                         path |-> p.value]]

\* P9Message::WriteHeader, FinalizeHeader and the builders.
WriteHeader(b, type, tag) ==
    ThenWrite(ThenWrite(WriteUint32(b, 0), WriteUint8, type),
              WriteUint16, tag)

FinalizeHeader_Skip(r) == r

\* FinalizeHeader copies Size() over the first four bytes of fData.
FinalizeHeader(r) ==
    IF r.status # "B_OK" THEN r
    ELSE [r EXCEPT !.b.data = LE32(Len(@)) \o SubSeq(@, 5, Len(@))]

RECURSIVE WriteNames(_, _)
WriteNames(r, names) ==
    IF names = <<>> THEN r
    ELSE WriteNames(ThenWrite(r, WriteString, Head(names)), Tail(names))

\* Each builder starts with Reset().
BuildVersion(b, tag, msize, version) ==
    FinalizeHeader(ThenWrite(ThenWrite(
        WriteHeader(NewBuffer(b.fCapacity), P9_TVERSION, tag),
        WriteUint32, msize), WriteString, version))
BuildWalk(b, tag, fid, newfid, names) ==
    FinalizeHeader(WriteNames(ThenWrite(ThenWrite(ThenWrite(
        WriteHeader(NewBuffer(b.fCapacity), P9_TWALK, tag),
        WriteUint32, fid), WriteUint32, newfid), WriteUint16, Len(names)),
        names))
BuildRead(b, tag, fid, offset, count) ==
    FinalizeHeader(ThenWrite(ThenWrite(ThenWrite(
        WriteHeader(NewBuffer(b.fCapacity), P9_TREAD, tag),
        WriteUint32, fid), WriteUint64, offset), WriteUint32, count))
BuildClunk(b, tag, fid) ==
    FinalizeHeader(ThenWrite(
        WriteHeader(NewBuffer(b.fCapacity), P9_TCLUNK, tag),
        WriteUint32, fid))

\* The values the checks encode: a value is given with its kind.
StrUsr == <<117, 115, 114>>
StrBin == <<98, 105, 110>>
QidExample == [type |-> 128, version |-> 12345,
               path |-> [hi |-> -559038737, lo |-> -889275714]]
Items ==
    { [k |-> "u8", v |-> 128], [k |-> "u16", v |-> 258],
      [k |-> "u32", v |-> 305419896], [k |-> "u32", v |-> P9_NOFID],
      [k |-> "u64", v |-> QidExample.path], [k |-> "qid", v |-> QidExample],
      [k |-> "str", v |-> <<>>], [k |-> "str", v |-> StrUsr] }
\* Capacities of the buffer and sizes of the caller's string buffer.
CodecCaps == {SmallMsize, 16, 64}
StringBufs == {1, 32}
BuilderTags == {1, 258}
WalkNames == {<<>>, <<StrUsr>>, <<StrUsr, StrBin>>}

Write(b, it) ==
    CASE it.k = "u8" -> WriteUint8(b, it.v)
      [] it.k = "u16" -> WriteUint16(b, it.v)
      [] it.k = "u32" -> WriteUint32(b, it.v)
      [] it.k = "u64" -> WriteUint64(b, it.v)
      [] it.k = "qid" -> WriteQid(b, it.v)
      [] it.k = "str" -> WriteString(b, it.v)
Read(b, k, bufferSize) ==
    CASE k = "u8" -> ReadUint8(b)
      [] k = "u16" -> ReadUint16(b)
      [] k = "u32" -> ReadUint32(b)
      [] k = "u64" -> ReadUint64(b)
      [] k = "qid" -> ReadQid(b)
      [] k = "str" -> ReadStringAt(b, bufferSize)

\* The buffer of a P9Message, the values written to it since the last Reset
\* (items) and how many of them were read back (nread); clean: every write
\* so far went through whole; aligned: every read so far did; op: the latest
\* call, its argument, result and the cursors it started from.
NoCodecOp == [op |-> "none", it |-> [k |-> "none", v |-> 0], out |-> "none",
              status |-> "B_OK", pos0 |-> 0, ok0 |-> FALSE, bsize |-> 0,
              type |-> 0, tag |-> 0, extra |-> 0]
CodecOf(b) == [b |-> b, items |-> <<>>, nread |-> 0, clean |-> TRUE,
               aligned |-> TRUE, call |-> NoCodecOp]
NoCodec == CodecOf(NewBuffer(0))

CodecFrame == UNCHANGED <<clientVars, poolVars, wireVars, threadVars, vstate,
                          fReadOnly, vnodes, cookies, io, dirVars, lockVars,
                          pcall, transport, last>>

\* P9Message::Init: a buffer of msize bytes.
MessageInit(cap) ==
    /\ codec' = CodecOf(NewBuffer(cap))
    /\ CodecFrame

\* One Write* call.
EncodeItem(it) ==
    /\ Len(codec.items) < MaxItems
    /\ \E r \in {Write(codec.b, it)} :
        codec' = [codec EXCEPT
            !.b = r.b,
            !.items = IF r.status = "B_OK" THEN Append(@, it) ELSE @,
            !.clean = @ /\ (r.status = "B_OK" \/ r.b = codec.b),
            !.call = [NoCodecOp EXCEPT !.op = "write", !.it = it,
                        !.status = r.status, !.pos0 = Len(codec.b.data),
                        !.ok0 = codec.clean]]
    /\ CodecFrame

\* One Read* call, of the kind of the next value written.
DecodeItem(bufferSize) ==
    /\ codec.nread < Len(codec.items)
    /\ \E it \in {codec.items[codec.nread + 1]} :
       \E r \in {Read(codec.b, it.k, bufferSize)} :
        codec' = [codec EXCEPT
            !.b = r.b,
            !.nread = IF r.status = "B_OK" THEN @ + 1 ELSE @,
            !.aligned = @ /\ r.status = "B_OK",
            !.call = [NoCodecOp EXCEPT !.op = "read", !.it = it,
                        !.out = r.value, !.status = r.status,
                        !.pos0 = codec.b.fReadPos,
                        !.ok0 = codec.clean /\ codec.aligned,
                        !.bsize = bufferSize]]
    /\ CodecFrame

\* P9Buffer::ResetRead.
ResetRead ==
    /\ codec.b.fReadPos > 0
    /\ codec' = [codec EXCEPT !.b.fReadPos = 0, !.nread = 0, !.aligned = TRUE,
                              !.call = NoCodecOp]
    /\ CodecFrame

\* Sum of 2 + strlen over the names of a Twalk.
RECURSIVE NamesSize(_)
NamesSize(names) ==
    IF names = <<>> THEN 0 ELSE 2 + Len(Head(names)) + NamesSize(Tail(names))

Built(r, type, tag, extra) ==
    /\ codec' = [CodecOf(r.b) EXCEPT
            !.clean = FALSE,
            !.call = [NoCodecOp EXCEPT !.op = "build", !.status = r.status,
                        !.type = type, !.tag = tag, !.extra = extra]]
    /\ CodecFrame

\* A builder call.  Connect is the only caller of BuildVersion and passes
\* P9_NOTAG and fMsize; the other operations pass the tag they allocated.
BuildFrame ==
    \/ \E m \in ClientMsizes :
        Built(BuildVersion(codec.b, P9_NOTAG, m, P9_VERSION_9P2000_L), P9_TVERSION,
              P9_NOTAG, 0)
    \/ \E tag \in BuilderTags, names \in WalkNames :
        Built(BuildWalk(codec.b, tag, 0, 1, names), P9_TWALK, tag,
              NamesSize(names))
    \/ \E tag \in BuilderTags, off \in {[hi |-> 0, lo |-> 4096]} :
        Built(BuildRead(codec.b, tag, 1, off, ChunkLen), P9_TREAD, tag, 0)
    \/ \E tag \in BuilderTags, fid \in {1, P9_NOFID} :
        Built(BuildClunk(codec.b, tag, fid), P9_TCLUNK, tag, 0)

\* ------------------------------------------------- the pools, call by call
\* FidPool and TagPool under several callers.  A call is cut at
\* MutexLocker locker(&fLock), at the search of the bitmap, at the write of
\* the bit and at the end of the locker's scope.  held is what each caller
\* was handed by Allocate and has not passed to Release.
Pools == {"fid", "tag"}
PoolSize(P) == IF P = "fid" THEN MaxFids ELSE MaxTags
Sentinel(P) == IF P = "fid" THEN P9_NOFID ELSE P9_NOTAG
Bitmap(P) == IF P = "fid" THEN fidBitmap ELSE tagBitmap
\* The Virtio9PTransport after Init: the count of fTransferDone, the requests
\* in the virtqueue the device has not completed (queued) and those it has
\* completed but the interrupt handler has not dequeued (used), the length
\* field of the frame in fResponseBuffer, and the running ReceiveMessage:
\* its position, *size on entry, the bytes it copied to the caller's buffer,
\* its status, and whether the request it queued had been completed when it
\* returned.
NoTransport == [fTransferDone |-> 0, queued |-> 0, used |-> 0,
                responseSize |-> 0, pc |-> "idle", size |-> 0, copied |-> 0,
                status |-> "B_OK", completed |-> FALSE]

NoPoolOp == [pc |-> "idle", pool |-> "fid", kind |-> "none", v |-> 0,
             full0 |-> FALSE, free0 |-> FALSE]
NoPoolCalls == [lock |-> [P \in Pools |-> NoThread],
                th |-> [t \in Threads |-> NoPoolOp],
                held |-> [t \in Threads |-> [P \in Pools |-> {}]]]

\* The early return of Release: fid >= fMaxFids (unsigned), or
\* tag >= fMaxTags || tag == P9_NOTAG.
OutOfPool(P, v) ==
    IF P = "fid" THEN ~ULess(v, MaxFids) ELSE v >= MaxTags \/ v = P9_NOTAG

PoolFree_Always(l) == TRUE

\* The mutex of a pool can be taken.
PoolFree(l) == l = NoThread

PoolFrame ==
    UNCHANGED <<fMsize, fIOUnit, fRootFid, fConnected, serverFids, wireVars,
                threadVars, vstate, fReadOnly, vnodes, cookies, io, dirVars,
                lockVars, codec, transport, last>>

SetPool(P, bitmap, hint) ==
    IF P = "fid"
    THEN /\ fidBitmap' = bitmap
         /\ fidNextHint' = hint
         /\ UNCHANGED poolVars
    ELSE /\ tagBitmap' = bitmap
         /\ tagNextHint' = hint
         /\ UNCHANGED <<fidBitmap, fidNextHint>>

KeepPools == UNCHANGED <<fidBitmap, fidNextHint, poolVars>>

\* A thread calls Allocate() or Release(v).
PoolBegin(t, P, kind, v) ==
    /\ pcall.th[t].pc = "idle"
    /\ pcall' = [pcall EXCEPT
            !.th[t] = [NoPoolOp EXCEPT !.pool = P, !.kind = kind, !.v = v,
                        !.free0 = v \notin Bitmap(P),
                        !.pc = IF kind = "release" /\ OutOfPool(P, v)
                               THEN "ret" ELSE "lock"],
            !.held[t][P] = IF kind = "release" THEN @ \ {v} ELSE @]
    /\ KeepPools
    /\ PoolFrame

\* MutexLocker locker(&fLock).
PoolLock(t) ==
    /\ pcall.th[t].pc = "lock"
    /\ \E P \in {pcall.th[t].pool} :
        /\ PoolFree(pcall.lock[P])
        /\ pcall' = [pcall EXCEPT
                !.lock[P] = t,
                !.th[t].full0 = (Bitmap(P) = 0..(PoolSize(P) - 1)),
                !.th[t].pc = IF pcall.th[t].kind = "allocate"
                             THEN "scan" ELSE "clear"]
    /\ KeepPools
    /\ PoolFrame

\* The loop of Allocate up to the test that finds a clear bit.
PoolScan(t) ==
    /\ pcall.th[t].pc = "scan"
    /\ \E found \in {IF pcall.th[t].pool = "fid"
                      THEN FidPoolAllocate(fidBitmap, fidNextHint).fid
                      ELSE TagPoolAllocate(tagBitmap, tagNextHint).tag} :
        pcall' = [pcall EXCEPT
            !.th[t].v = found,
            !.th[t].pc = IF found = Sentinel(pcall.th[t].pool)
                         THEN "unlock" ELSE "mark"]
    /\ KeepPools
    /\ PoolFrame

\* fBitmap[word] |= (1U << bit); fNextHint = (fid + 1) % fMaxFids.
PoolMark(t) ==
    /\ pcall.th[t].pc = "mark"
    /\ \E P \in {pcall.th[t].pool}, v \in {pcall.th[t].v} :
        SetPool(P, Bitmap(P) \cup {v}, (v + 1) % PoolSize(P))
    /\ pcall' = [pcall EXCEPT !.th[t].pc = "unlock"]
    /\ PoolFrame

PoolClear_All(t) ==
    /\ pcall.th[t].pc = "clear"
    /\ \E P \in {pcall.th[t].pool} :
        SetPool(P, {}, IF P = "fid" THEN fidNextHint ELSE tagNextHint)
    /\ pcall' = [pcall EXCEPT !.th[t].pc = "unlock"]
    /\ PoolFrame

\* fBitmap[word] &= ~(1U << bit) in Release.
PoolClear(t) ==
    /\ pcall.th[t].pc = "clear"
    /\ \E P \in {pcall.th[t].pool} :
        SetPool(P, Bitmap(P) \ {pcall.th[t].v},
                IF P = "fid" THEN fidNextHint ELSE tagNextHint)
    /\ pcall' = [pcall EXCEPT !.th[t].pc = "unlock"]
    /\ PoolFrame

\* The locker goes out of scope.
PoolUnlock(t) ==
    /\ pcall.th[t].pc = "unlock"
    /\ pcall' = [pcall EXCEPT !.lock[pcall.th[t].pool] = NoThread,
                              !.th[t].pc = "ret"]
    /\ KeepPools
    /\ PoolFrame

\* The call returns; the caller of Allocate now holds the value.
PoolReturn(t) ==
    /\ pcall.th[t].pc = "ret"
    /\ \E c \in {pcall.th[t]} :
        pcall' = [pcall EXCEPT
            !.th[t] = NoPoolOp,
            !.held[t][c.pool] =
                IF c.kind = "release" \/ c.v = Sentinel(c.pool) THEN @
                ELSE @ \cup {c.v}]
    /\ KeepPools
    /\ PoolFrame

\* ---------------------------------------------------------- the inode lock
\* The Inode operations that allocate a FID or write the cached stat fields,
\* run by several threads on the root inode; each is cut at the point where
\* it takes fLock (if it does) and at the allocation or the write.
NoHook == [op |-> "none", pc |-> "idle", fid |-> P9_NOFID]
\* Operations that open with MutexLocker locker(&fLock).
LockingOps == {"Open", "OpenDir", "Create", "ReadStat", "WriteStat"}
\* Operations that call P9Client::AllocateFid, directly or through
\* WalkToChild.
AllocOps == {"Open", "OpenDir", "Create", "Lookup"}
\* Operations that assign fMode, fSize or fStatValid.
StatOps == {"ReadStat", "WriteStat", "Write"}
InodeOps == AllocOps \cup StatOps

HooksIdle == \A t \in Threads : hook[t].pc = "idle"

LockFrame ==
    UNCHANGED <<fMsize, fIOUnit, fRootFid, fConnected, serverFids, vstate,
                fReadOnly, vnodes, cookies, io, dirVars, threadVars, poolVars,
                wireVars, codec, pcall, transport, last>>

\* A thread enters an operation of the root inode.
InodeBegin(t, o) ==
    /\ vstate = "mounted"
    /\ \E i \in Inos : IsRootInode(i)
    /\ hook[t].pc = "idle"
    /\ hook' = [hook EXCEPT ![t] = [op |-> o, pc |-> IF o \in LockingOps
                                                      THEN "lock" ELSE "step",
                                     fid |-> P9_NOFID]]
    /\ LockFrame
    /\ UNCHANGED <<fLock, fStatValid, fidBitmap, fidNextHint>>

\* MutexLocker locker(&fLock): the thread waits until the lock is free.
InodeLock(t) ==
    /\ hook[t].pc = "lock"
    /\ fLock = NoThread
    /\ fLock' = t
    /\ hook' = [hook EXCEPT ![t].pc = "step"]
    /\ LockFrame
    /\ UNCHANGED <<fStatValid, fidBitmap, fidNextHint>>

\* The allocation of the new FID (FidPool::Allocate, atomic under the
\* pool's own mutex), or the assignment of the cached stat fields.
InodeStep(t) ==
    /\ hook[t].pc = "step"
    /\ IF hook[t].op \in AllocOps
       THEN \E a \in {AllocateFid} :
            /\ fidBitmap' = a.bitmap
            /\ fidNextHint' = a.hint
            /\ hook' = [hook EXCEPT ![t].pc = "end", ![t].fid = a.fid]
            /\ UNCHANGED fStatValid
       ELSE /\ fStatValid' = (hook[t].op = "ReadStat")
            /\ hook' = [hook EXCEPT ![t].pc = "end"]
            /\ UNCHANGED <<fidBitmap, fidNextHint>>
    /\ LockFrame
    /\ UNCHANGED fLock

\* The operation returns: the locker, if any, goes out of scope; the FID is
\* released here when the rest of the operation failed, or later by the
\* owner it was handed to (cookie, inode).
InodeEnd(t) ==
    /\ hook[t].pc = "end"
    /\ fLock' = IF fLock = t THEN NoThread ELSE fLock
    /\ fidBitmap' = FidPoolRelease(fidBitmap, hook[t].fid)
    /\ hook' = [hook EXCEPT ![t] = NoHook]
    /\ LockFrame
    /\ UNCHANGED <<fStatValid, fidNextHint>>

\* fs_unmount, which the VFS calls once no cookie is open and every other
\* vnode has been put: the root inode goes, Volume::Unmount disconnects, and
\* the volume is deleted.
Unmount ==
    /\ vstate = "mounted"
    /\ FreeSlots = CookieSlots
    /\ \A i \in Inos : vnodes[i].live => IsRootInode(i)
    /\ \E od \in VfsOutcomes :
        \E d \in {DisconnectOp(Ctx, ClientState, od)} :
            /\ Done(d.c, NoVnodes, NoCookies, "Unmount", "B_OK", fRootFid,
                    FALSE)
            /\ SetClient(d.st)
    /\ vstate' = "unmounted"
    /\ UNCHANGED <<fReadOnly, threadVars, fRequestLock, io, dirVars,
                   lockVars, codec, pcall, transport>>

\* Inode::Lookup(name): "." answers at once, any other name walks to the
\* child and asks Volume::GetInode for its inode.
Lookup(ino) ==
    /\ vstate = "mounted"
    /\ vnodes[ino].live
    /\ HookFrame
    /\ IF ~vnodes[ino].isDir
       THEN Done(Ctx, vnodes, cookies, "Lookup", "B_NOT_A_DIRECTORY",
                 P9_NOFID, FALSE)
       ELSE \/ Done(Ctx, vnodes, cookies, "Lookup", "B_OK", P9_NOFID, FALSE)
            \/ \E a \in {AllocateFid} :
                IF a.fid = P9_NOFID
                THEN Done(Ctx, vnodes, cookies, "Lookup", "B_NO_MEMORY",
                          P9_NOFID, FALSE)
                ELSE \E o1 \in WalkOutcomes :
                    \E w \in {WalkOp(Allocated(a), fMsize, vnodes[ino].fid,
                                     a.fid, o1)} :
                    IF w.status # "B_OK"
                    THEN Done(ReleaseFid(w.c, a.fid), vnodes, cookies,
                              "Lookup", w.status, a.fid, FALSE)
                    ELSE \E id \in Inos, isDir \in ChildIsDir :
                        \E run \in GetInodeRuns(vnodes[id].live) :
                        \E i \in {GetInodeOp(w.c, vnodes, fMsize, fRootFid,
                                    a.fid, id, isDir, run.fail, run.g1,
                                    run.g2)} :
                        IF i.status # "B_OK"
                        THEN ClunkRelease(i.c, vnodes, cookies, "Lookup",
                                          i.status, a.fid)
                        ELSE Done(i.c, i.vn, cookies, "Lookup", "B_OK", a.fid,
                                  TRUE)

\* The common body of Inode::Open and Inode::OpenDir: clone the inode's FID,
\* Tlopen the clone, allocate the cookie.
OpenCommon(ino, name, kind) ==
    \E a \in {AllocateFid} :
    IF a.fid = P9_NOFID
    THEN Done(Ctx, vnodes, cookies, name, "B_NO_MEMORY", P9_NOFID, FALSE)
    ELSE \E o1 \in VfsOutcomes :
        \E w \in {WalkOp(Allocated(a), fMsize, vnodes[ino].fid, a.fid, o1)} :
        IF w.status # "B_OK"
        THEN Done(ReleaseFid(w.c, a.fid), vnodes, cookies, name, w.status,
                  a.fid, FALSE)
        ELSE \E o2 \in VfsOutcomes :
            \E l \in {Rpc(w.c, fMsize, P9_TLOPEN, a.fid, P9_NOFID, o2)} :
            IF l.status # "B_OK"
            THEN ClunkRelease(l.c, vnodes, cookies, name, l.status, a.fid)
            ELSE \/ ClunkRelease(l.c, vnodes, cookies, name, "B_NO_MEMORY",
                                 a.fid)
                 \/ /\ FreeSlots # {}
                    /\ Done(l.c, vnodes,
                            [cookies EXCEPT ![SetMin(FreeSlots)] =
                                [fid |-> a.fid, ino |-> ino, kind |-> kind]],
                            name, "B_OK", a.fid, TRUE)

\* Inode::Open(openMode, &cookie).
Open(ino) ==
    /\ vstate = "mounted"
    /\ vnodes[ino].live
    /\ HookFrame
    /\ OpenCommon(ino, "Open", "file")

\* Inode::OpenDir(&cookie).
OpenDir(ino) ==
    /\ vstate = "mounted"
    /\ vnodes[ino].live
    /\ HookFrame
    /\ IF ~vnodes[ino].isDir
       THEN Done(Ctx, vnodes, cookies, "OpenDir", "B_NOT_A_DIRECTORY",
                 P9_NOFID, FALSE)
       ELSE OpenCommon(ino, "OpenDir", "dir")

IsReadOnly_Never == FALSE

\* Volume::IsReadOnly().
IsReadOnly == fReadOnly

\* The second half of Inode::Create, entered once Tlcreate succeeded on
\* newFid: the inode of the new file (built around P9_NOFID), its Init, the
\* publication of the vnode and the cookie.
CreateInode(c, newFid) ==
    \/ ClunkRelease(c, vnodes, cookies, "Create", "B_NO_MEMORY", newFid)
    \/ \E o3 \in VfsOutcomes :
        \E g \in {Rpc(c, fMsize, P9_TGETATTR, P9_NOFID, P9_NOFID, o3)} :
        IF g.status # "B_OK"
        THEN ClunkRelease(g.c, vnodes, cookies, "Create", g.status, newFid)
        ELSE \E id \in Inos, published \in BOOLEAN :
            IF vnodes[id].live \/ ~published
            THEN ClunkRelease(g.c, vnodes, cookies, "Create", "B_ERROR",
                              newFid)
            ELSE \E vn \in {[vnodes EXCEPT ![id] =
                    [fid |-> P9_NOFID, isDir |-> FALSE, live |-> TRUE]]} :
                \* no cookie: put_vnode(id) and return
                \/ Done(g.c, vn, cookies, "Create", "B_NO_MEMORY", newFid,
                        TRUE)
                \/ /\ FreeSlots # {}
                   /\ Done(g.c, vn,
                           [cookies EXCEPT ![SetMin(FreeSlots)] =
                               [fid |-> newFid, ino |-> id, kind |-> "file"]],
                           "Create", "B_OK", newFid, TRUE)

\* Inode::Create(name, openMode, perms, &cookie, &newID).
Create(ino) ==
    /\ vstate = "mounted"
    /\ vnodes[ino].live
    /\ HookFrame
    /\ IF ~vnodes[ino].isDir
       THEN Done(Ctx, vnodes, cookies, "Create", "B_NOT_A_DIRECTORY",
                 P9_NOFID, FALSE)
       ELSE IF IsReadOnly
       THEN Done(Ctx, vnodes, cookies, "Create", "B_READ_ONLY_DEVICE",
                 P9_NOFID, FALSE)
       ELSE \E a \in {AllocateFid} :
           IF a.fid = P9_NOFID
           THEN Done(Ctx, vnodes, cookies, "Create", "B_NO_MEMORY", P9_NOFID,
                     FALSE)
           ELSE \E o1 \in VfsOutcomes :
               \E w \in {WalkOp(Allocated(a), fMsize, vnodes[ino].fid, a.fid,
                                o1)} :
               IF w.status # "B_OK"
               THEN Done(ReleaseFid(w.c, a.fid), vnodes, cookies, "Create",
                         w.status, a.fid, FALSE)
               ELSE \E o2 \in VfsOutcomes :
                   \E l \in {Rpc(w.c, fMsize, P9_TLCREATE, a.fid, P9_NOFID,
                                 o2)} :
                   IF l.status # "B_OK"
                   THEN ClunkRelease(l.c, vnodes, cookies, "Create", l.status,
                                     a.fid)
                   ELSE CreateInode(l.c, a.fid)

\* Inode::FreeCookie(cookie).
FreeCookie(k) ==
    /\ vstate = "mounted"
    /\ cookies[k].kind = "file"
    /\ HookFrame
    /\ ClunkRelease(Ctx, vnodes, [cookies EXCEPT ![k] = NoCookie],
                    "FreeCookie", "B_OK", cookies[k].fid)

\* Inode::FreeDirCookie(cookie).
FreeDirCookie(k) ==
    /\ vstate = "mounted"
    /\ cookies[k].kind = "dir"
    /\ HookFrameBase
    /\ dirs' = [dirs EXCEPT ![k] = NoDir]
    /\ UNCHANGED rd
    /\ ClunkRelease(Ctx, vnodes, [cookies EXCEPT ![k] = NoCookie],
                    "FreeDirCookie", "B_OK", cookies[k].fid)

\* fs_put_vnode: the VFS drops a vnode nobody has open; the inode is
\* deleted.  The root vnode stays until the volume is unmounted.
PutVnode(ino) ==
    /\ vstate = "mounted"
    /\ vnodes[ino].live
    /\ ~IsRootInode(ino)
    /\ \A k \in CookieSlots : cookies[k].ino # ino
    /\ HookFrame
    /\ \E o \in VfsOutcomes :
        Done(InodeDtor(Ctx, fMsize, fRootFid, vnodes[ino].fid, o),
             [vnodes EXCEPT ![ino] = NoInode], cookies, "PutVnode", "B_OK",
             vnodes[ino].fid, FALSE)

\* ----------------------------------------------------- mutating inode hooks
\* The body shared by Inode::Remove, CreateSymlink, CreateDir and RemoveDir:
\* the directory check, the read-only check, then one transaction on the
\* inode's FID.
DirMutation(ino, name, type) ==
    /\ vstate = "mounted"
    /\ vnodes[ino].live
    /\ HookFrame
    /\ IF ~vnodes[ino].isDir
       THEN Done(Ctx, vnodes, cookies, name, "B_NOT_A_DIRECTORY", P9_NOFID,
                 FALSE)
       ELSE IF IsReadOnly
       THEN Done(Ctx, vnodes, cookies, name, "B_READ_ONLY_DEVICE", P9_NOFID,
                 FALSE)
       ELSE \E o \in VfsOutcomes :
           \E r \in {Rpc(Ctx, fMsize, type, vnodes[ino].fid, P9_NOFID, o)} :
               Done(r.c, vnodes, cookies, name, r.status, P9_NOFID, FALSE)

\* Inode::Remove(name): Unlink(fFid, name, 0).
Remove(ino) == DirMutation(ino, "Remove", P9_TUNLINKAT)

\* Inode::CreateSymlink(name, target).
CreateSymlink(ino) == DirMutation(ino, "CreateSymlink", P9_TSYMLINK)

\* Inode::CreateDir(name, perms).
CreateDir(ino) == DirMutation(ino, "CreateDir", P9_TMKDIR)

\* Inode::RemoveDir(name): Unlink(fFid, name, AT_REMOVEDIR).
RemoveDir(ino) == DirMutation(ino, "RemoveDir", P9_TUNLINKAT)

\* Inode::Rename(fromName, toDir, toName).
Rename(ino, toDir) ==
    /\ vstate = "mounted"
    /\ vnodes[ino].live
    /\ vnodes[toDir].live
    /\ HookFrame
    /\ IF ~vnodes[ino].isDir \/ ~vnodes[toDir].isDir
       THEN Done(Ctx, vnodes, cookies, "Rename", "B_NOT_A_DIRECTORY",
                 P9_NOFID, FALSE)
       ELSE IF IsReadOnly
       THEN Done(Ctx, vnodes, cookies, "Rename", "B_READ_ONLY_DEVICE",
                 P9_NOFID, FALSE)
       ELSE \E o \in VfsOutcomes :
           \E r \in {Rpc(Ctx, fMsize, P9_TRENAMEAT, vnodes[ino].fid,
                         vnodes[toDir].fid, o)} :
               Done(r.c, vnodes, cookies, "Rename", r.status, P9_NOFID,
                    FALSE)

\* Inode::WriteStat(stat, statMask).
WriteStat(ino) ==
    /\ vstate = "mounted"
    /\ vnodes[ino].live
    /\ HookFrame
    /\ IF IsReadOnly
       THEN Done(Ctx, vnodes, cookies, "WriteStat", "B_READ_ONLY_DEVICE",
                 P9_NOFID, FALSE)
       ELSE \E o \in VfsOutcomes :
           \E r \in {Rpc(Ctx, fMsize, P9_TSETATTR, vnodes[ino].fid,
                         P9_NOFID, o)} :
               Done(r.c, vnodes, cookies, "WriteStat", r.status, P9_NOFID,
                    FALSE)

\* ------------------------------------------------- Inode::Read, Inode::Write
IoIdle == io.pc = "idle"

\* How the count of a reply may relate to the count c that was asked for.
IoReplies == {"full", "short", "zero", "over"}
Got(kind, c) ==
    CASE kind = "full" -> c
      [] kind = "short" -> c \div 2
      [] kind = "zero" -> 0
      [] OTHER -> c + 1
Class(got, c) ==
    IF got = c THEN "full"
    ELSE IF got > c THEN "over"
    ELSE IF got = 0 THEN "zero" ELSE "short"

\* remaining > IOUnit(), a size_t against a uint32: a remaining that wrapped
\* below zero is larger than any uint32, an iounit of 2^31 or more is larger
\* than any length of the model.
SizeGreater(remaining, iounit) ==
    IF remaining < 0 THEN TRUE
    ELSE IF iounit < 0 THEN FALSE ELSE remaining > iounit

Chunk_Iounit(remaining, iounit) == iounit

\* uint32 toRead = remaining > IOUnit() ? IOUnit() : remaining;
Chunk(remaining, iounit) ==
    IF SizeGreater(remaining, iounit) THEN iounit ELSE remaining

\* P9Client::Read / Write: if (toRead > fIOUnit) toRead = fIOUnit;
Clamp(count, iounit) == IF ULess(iounit, count) THEN iounit ELSE count

\* What the hooks of the file I/O leave alone.
IoFrame ==
    UNCHANGED <<fMsize, fIOUnit, fRootFid, fConnected, vstate, fReadOnly,
                vnodes, cookies, threadVars, fRequestLock, dirVars,
                lockVars, codec, pcall, transport>>

\* Entry of Inode::Read(cookie, pos, buffer, &length).
ReadBegin(k) ==
    /\ vstate = "mounted"
    /\ cookies[k].kind = "file"
    /\ IoIdle
    /\ \E pos \in IoPositions, len \in IoLens :
        /\ io' = IF pos < 0
                 THEN [NoIo EXCEPT !.pc = "done", !.kind = "Read",
                            !.fid = cookies[k].fid, !.pos = pos, !.len = len,
                            !.status = "B_BAD_VALUE", !.ret = len]
                 ELSE [NoIo EXCEPT !.pc = "loop", !.kind = "Read",
                            !.fid = cookies[k].fid, !.pos = pos, !.len = len,
                            !.remaining = len, !.ret = len]
        /\ last' = [NoLast EXCEPT !.op = "Read",
                        !.status = IF pos < 0 THEN "B_BAD_VALUE" ELSE "B_OK"]
    /\ IoFrame
    /\ UNCHANGED <<poolVars, reqBuf, fidBitmap, fidNextHint, serverFids>>

\* Entry of Inode::Write(cookie, pos, buffer, &length).
WriteBegin(k) ==
    /\ vstate = "mounted"
    /\ cookies[k].kind = "file"
    /\ IoIdle
    /\ \E pos \in IoPositions, len \in IoLens :
        \E s \in {IF pos < 0 THEN "B_BAD_VALUE"
                  ELSE IF IsReadOnly THEN "B_READ_ONLY_DEVICE" ELSE "B_OK"} :
        /\ io' = IF s # "B_OK"
                 THEN [NoIo EXCEPT !.pc = "done", !.kind = "Write",
                            !.fid = cookies[k].fid, !.pos = pos, !.len = len,
                            !.status = s, !.ret = len]
                 ELSE [NoIo EXCEPT !.pc = "loop", !.kind = "Write",
                            !.fid = cookies[k].fid, !.pos = pos, !.len = len,
                            !.remaining = len, !.ret = len]
        /\ last' = [NoLast EXCEPT !.op = "Write", !.status = s]
    /\ IoFrame
    /\ UNCHANGED <<poolVars, reqBuf, fidBitmap, fidNextHint, serverFids>>

\* One turn of the while loop of Inode::Read / Inode::Write: the test of
\* remaining, then P9Client::Read / P9Client::Write for the next chunk and
\* the bookkeeping after it.  A failed transaction returns its status and
\* leaves *_length as it was.
IoStep ==
    /\ io.pc = "loop"
    /\ IoFrame
    /\ IF io.remaining = 0
       THEN /\ io' = [io EXCEPT !.pc = "done", !.ret = io.total]
            /\ UNCHANGED <<poolVars, reqBuf, fidBitmap, fidNextHint,
                           serverFids, last>>
       ELSE /\ io.n < MaxIoRpcs
            /\ \E o \in VfsOutcomes, kind \in IoReplies :
               \E count \in {Clamp(Chunk(io.remaining, fIOUnit), fIOUnit)} :
               \E type \in {IF io.kind = "Read" THEN P9_TREAD
                            ELSE P9_TWRITE} :
               \E extra \in {IF io.kind = "Read" THEN 0 ELSE count} :
               \E r \in {RpcN(Ctx, fMsize, type, io.fid, P9_NOFID, o,
                              extra)} :
               \E got \in {Got(kind, count)} :
               \E seen \in {IF io.n = 0 THEN {}
                            ELSE io.before \cup {io.cls}} :
                /\ Commit(r.c)
                /\ last' = [NoLast EXCEPT !.op = io.kind, !.sent = r.c.sent,
                                !.status = r.status, !.fault = r.c.fault]
                /\ io' =
                    IF r.status # "B_OK"
                    THEN [io EXCEPT !.pc = "done", !.status = r.status,
                            !.n = @ + Len(r.c.sent),
                            !.offset = io.pos + io.total, !.count = count,
                            !.got = 0, !.before = seen,
                            !.cls = IF Fits(MinFrameSize(type) + extra,
                                            fMsize)
                                    THEN "failed" ELSE "unbuilt"]
                    ELSE [io EXCEPT
                            !.pc = IF got = 0 THEN "done" ELSE "loop",
                            !.n = @ + 1,
                            !.offset = io.pos + io.total, !.count = count,
                            !.got = got, !.before = seen,
                            !.cls = Class(got, count),
                            !.total = @ + got,
                            !.remaining = @ - got,
                            !.ret = IF got = 0 THEN io.total ELSE @]

\* Inode::Read / Inode::Write returns to the VFS.
IoReturn ==
    /\ io.pc = "done"
    /\ io' = NoIo
    /\ IoFrame
    /\ UNCHANGED <<poolVars, reqBuf, fidBitmap, fidNextHint, serverFids,
                   last>>

\* ------------------------------------------- Inode::ReadDir, RewindDir
RdIdle == rd.pc = "idle"
DIR_BUFFER_SIZE == 4096

\* Volume::QidToIno(qid).
QidToIno(e) == e.path

\* The dirent ReadDir fills in for a parsed entry (with the offset it came
\* with, which the cookie keeps).
Dirent(e) == [d_ino |-> QidToIno(e), d_name |-> e.name, offset |-> e.offset]

\* cookie->offset = entry.offset;
NextOffset_Keep(old, e) == old

NextOffset(old, e) == e.offset

RECURSIVE WireSize(_)
WireSize(es) == IF es = <<>> THEN 0 ELSE WireLen(Head(es)) + WireSize(Tail(es))

RECURSIVE Following(_, _)
\* The entries of es behind continuation offset o.
Following(es, o) ==
    IF es = <<>> THEN <<>>
    ELSE IF Head(es).offset > o THEN es ELSE Following(Tail(es), o)

RECURSIVE FitPrefix(_, _, _)
\* The server fills an Rreaddir with whole entries: at most per of them and
\* at most count bytes.
FitPrefix(es, per, count) ==
    IF es = <<>> \/ per = 0 \/ WireLen(Head(es)) > count THEN <<>>
    ELSE <<Head(es)>> \o FitPrefix(Tail(es), per - 1,
                                   count - WireLen(Head(es)))

RECURSIVE EntriesIn(_, _, _)
\* What P9DirEntryParser(buffer + bufferPos, bufferSize - bufferPos) parses:
\* the entries of the buffer that lie in [pos, size).
EntriesIn(buf, pos, size) ==
    IF buf = <<>> \/ size < WireLen(Head(buf)) THEN <<>>
    ELSE IF pos > 0
    THEN EntriesIn(Tail(buf), pos - WireLen(Head(buf)),
                   size - WireLen(Head(buf)))
    ELSE <<Head(buf)>> \o EntriesIn(Tail(buf), 0, size - WireLen(Head(buf)))

RECURSIVE Fill(_, _, _)
\* The inner loop: while (parser.HasNext() && count < maxCount), with left
\* = maxCount - count.  Gives the entries filled in and whether the loop
\* ended at an entry with recLen > bufferSize.
Fill(es, room, left) ==
    IF es = <<>> \/ left = 0 THEN [put |-> <<>>, blocked |-> FALSE]
    ELSE IF RecLen(Head(es)) > room THEN [put |-> <<>>, blocked |-> TRUE]
    ELSE LET f == Fill(Tail(es), room - RecLen(Head(es)), left - 1)
         IN  [put |-> <<Head(es)>> \o f.put, blocked |-> f.blocked]

RECURSIVE RecSize(_)
RecSize(es) == IF es = <<>> THEN 0 ELSE RecLen(Head(es)) + RecSize(Tail(es))

RECURSIVE Dirents(_)
Dirents(es) == IF es = <<>> THEN <<>> ELSE <<Dirent(Head(es))>> \o Dirents(Tail(es))

\* What the directory hooks leave alone.
RdFrame ==
    UNCHANGED <<fMsize, fIOUnit, fRootFid, fConnected, vstate, fReadOnly,
                vnodes, cookies, threadVars, fRequestLock, io, lockVars, codec,
                pcall, transport>>

\* Entry of Inode::ReadDir(cookie, buffer, bufferSize, &num).
ReadDirBegin(k) ==
    /\ vstate = "mounted"
    /\ cookies[k].kind = "dir"
    /\ RdIdle
    /\ \E maxCount \in MaxCounts, size \in OutSizes :
        rd' = [NoRd EXCEPT !.pc = "loop", !.k = k, !.maxCount = maxCount,
                           !.room = size, !.ret = maxCount,
                           !.eof0 = dirs[k].eof,
                           !.out0 = Len(dirs[k].out)]
    /\ last' = [NoLast EXCEPT !.op = "ReadDir", !.fid = cookies[k].fid]
    /\ RdFrame
    /\ UNCHANGED <<poolVars, reqBuf, fidBitmap, fidNextHint, serverFids, dirs>>

\* return B_OK with *_num = count: the caller has the dirents filled in.
RdDone(ck) ==
    /\ rd' = [rd EXCEPT !.pc = "done", !.status = "B_OK", !.ret = rd.count]
    /\ dirs' = [dirs EXCEPT ![rd.k] =
                    [ck EXCEPT !.out = @ \o Dirents(rd.emitted)]]

\* The counters of a call stop counting at MaxRefills.
Counted(r) ==
    [r EXCEPT !.n = IF @ > MaxRefills THEN MaxRefills ELSE @,
              !.afterFull = IF @ > MaxRefills THEN MaxRefills ELSE @]

\* The entries of the cookie's buffer are parsed and filled in, then
\* cookie->bufferPos = cookie->bufferSize and the outer loop goes on; an
\* entry that does not fit an empty output returns B_BUFFER_OVERFLOW.
RdParse(ck, sentNow) ==
    \E f \in {Fill(EntriesIn(ck.buf, ck.bufferPos, ck.bufferSize), rd.room,
                   rd.maxCount - rd.count)} :
        IF f.blocked /\ rd.count + Len(f.put) = 0
        THEN /\ rd' = Counted([rd EXCEPT !.pc = "done",
                                 !.status = "B_BUFFER_OVERFLOW",
                                 !.n = @ + sentNow,
                                 !.reqOffset = IF sentNow = 1 THEN ck.offset
                                               ELSE @,
                                 !.reqAt = IF sentNow = 1 THEN rd.count
                                           ELSE @])
             /\ dirs' = [dirs EXCEPT ![rd.k] = ck]
        ELSE /\ rd' = Counted([rd EXCEPT
                    !.count = @ + Len(f.put),
                    !.room = @ - RecSize(f.put),
                    !.emitted = @ \o f.put,
                    !.n = @ + sentNow,
                    !.reqOffset = IF sentNow = 1 THEN ck.offset ELSE @,
                    !.reqAt = IF sentNow = 1 THEN rd.count ELSE @,
                    !.afterFull = IF rd.full THEN @ + sentNow ELSE @,
                    !.full = @ \/ f.blocked])
             /\ dirs' = [dirs EXCEPT ![rd.k] =
                    [ck EXCEPT
                        !.offset = IF f.put = <<>> THEN @
                                   ELSE NextOffset(@, f.put[Len(f.put)]),
                        !.bufferPos = ck.bufferSize]]

\* One turn of the outer loop of Inode::ReadDir: the test of count, the
\* refill of the cookie's buffer by P9Client::ReadDir when it is used up,
\* then the parsing.  A failed refill returns its status and leaves *_num.
\* capped bounds the refills of one call; junks are the sizes of the
\* payloads the server may send that hold no complete entry (0: it sends
\* whole entries).
RdStepWith(capped, junks) ==
    /\ rd.pc = "loop"
    /\ RdFrame
    /\ \E ck \in {dirs[rd.k]} :
       IF rd.count >= rd.maxCount
       THEN /\ RdDone(ck)
            /\ UNCHANGED <<poolVars, reqBuf, fidBitmap, fidNextHint,
                           serverFids, last>>
       ELSE IF ck.bufferPos >= ck.bufferSize /\ ~ck.eof
       THEN /\ capped => rd.n < MaxRefills
            /\ \E o \in VfsOutcomes, per \in 1..MaxPer, junk \in junks :
               \E toRead \in {Clamp(DIR_BUFFER_SIZE, fIOUnit)} :
               \E r \in {Rpc(Ctx, fMsize, P9_TREADDIR, cookies[rd.k].fid,
                             P9_NOFID, o)} :
               \E es \in {FitPrefix(Following(Listing, ck.offset), per,
                                    toRead)} :
                /\ Commit(r.c)
                /\ last' = [NoLast EXCEPT !.op = "ReadDir",
                                !.sent = r.c.sent, !.status = r.status,
                                !.fid = cookies[rd.k].fid,
                                !.fault = r.c.fault]
                /\ IF r.status # "B_OK"
                   THEN /\ rd' = Counted([rd EXCEPT !.pc = "done",
                                    !.status = r.status,
                                    !.n = @ + Len(r.c.sent),
                                    !.reqOffset = ck.offset,
                                    !.reqAt = rd.count,
                                    !.afterFull = IF rd.full
                                                  THEN @ + Len(r.c.sent)
                                                  ELSE @])
                        /\ dirs' = [dirs EXCEPT ![rd.k] =
                                [ck EXCEPT !.clean = @ /\ rd.count = 0]]
                   ELSE IF es = <<>> /\ junk = 0
                   THEN /\ rd' = Counted([rd EXCEPT !.pc = "done",
                                    !.status = "B_OK", !.ret = rd.count,
                                    !.n = @ + 1, !.reqOffset = ck.offset,
                                    !.reqAt = rd.count,
                                    !.afterFull = IF rd.full THEN @ + 1
                                                  ELSE @])
                        /\ dirs' = [dirs EXCEPT ![rd.k] =
                                [ck EXCEPT !.bufferSize = 0,
                                           !.bufferPos = 0, !.eof = TRUE,
                                           !.out = @ \o Dirents(rd.emitted)]]
                   ELSE IF junk > 0
                   THEN RdParse([ck EXCEPT !.buf = <<>>,
                                           !.bufferSize = junk,
                                           !.bufferPos = 0], 1)
                   ELSE RdParse([ck EXCEPT !.buf = es,
                                           !.bufferSize = WireSize(es),
                                           !.bufferPos = 0], 1)
       ELSE /\ UNCHANGED <<poolVars, reqBuf, fidBitmap, fidNextHint,
                           serverFids, last>>
            /\ IF ck.eof THEN RdDone(ck) ELSE RdParse(ck, 0)

\* The server sends whole entries and a call refills MaxRefills times at most.
RdStep == RdStepWith(TRUE, {0})

\* Inode::ReadDir returns to the VFS.
RdReturn ==
    /\ rd.pc = "done"
    /\ rd' = NoRd
    /\ RdFrame
    /\ UNCHANGED <<poolVars, reqBuf, fidBitmap, fidNextHint, serverFids,
                   dirs, last>>

\* The state a cookie is in: at EOF, with unparsed entries in its buffer,
\* with its buffer used up, or as OpenDir made it.
CookieState(ck) ==
    IF ck.eof THEN "eof"
    ELSE IF ck.bufferPos < ck.bufferSize THEN "mid"
    ELSE IF ck.offset # 0 THEN "drained" ELSE "fresh"

RewoundCookie_KeepEof(ck) ==
    [ck EXCEPT !.offset = 0, !.bufferSize = 0, !.bufferPos = 0,
               !.out = <<>>, !.clean = TRUE, !.rewound = CookieState(ck)]

\* The cookie after Inode::RewindDir; the listing starts over.
RewoundCookie(ck) ==
    [ck EXCEPT !.offset = 0, !.bufferSize = 0, !.bufferPos = 0,
               !.eof = FALSE, !.out = <<>>, !.clean = TRUE,
               !.rewound = CookieState(ck)]

\* Inode::RewindDir(cookie).
RewindDir(k) ==
    /\ vstate = "mounted"
    /\ cookies[k].kind = "dir"
    /\ RdIdle
    /\ dirs' = [dirs EXCEPT ![k] = RewoundCookie(@)]
    /\ last' = [NoLast EXCEPT !.op = "RewindDir", !.fid = cookies[k].fid]
    /\ RdFrame
    /\ UNCHANGED <<poolVars, reqBuf, fidBitmap, fidNextHint, serverFids, rd>>

\* ---------------------------------------------------------- specifications
Init ==
    /\ tagBitmap = {}
    /\ tagNextHint = 0
    /\ fRequestLock = NoThread
    /\ reqBuf = NoMsg
    /\ pc = [t \in Threads |-> "idle"]
    /\ op = [t \in Threads |-> 0]
    /\ req = [t \in Threads |-> NoMsg]
    /\ resp = [t \in Threads |-> NoMsg]
    /\ status = [t \in Threads |-> "B_OK"]
    /\ fidBitmap = {0}
    /\ fidNextHint = 1
    /\ fMsize \in ClientMsizes
    /\ fIOUnit = 0
    /\ fRootFid = 0
    /\ fConnected = FALSE
    /\ serverFids = {}
    /\ vstate = "unmounted"
    /\ fReadOnly = FALSE
    /\ vnodes = [i \in Inos |-> NoInode]
    /\ cookies = [k \in CookieSlots |-> NoCookie]
    /\ io = NoIo
    /\ dirs = [k \in CookieSlots |-> NoDir]
    /\ rd = NoRd
    /\ fLock = NoThread
    /\ hook = [t \in Threads |-> NoHook]
    /\ fStatValid = FALSE
    /\ codec = NoCodec
    /\ pcall = NoPoolCalls
    /\ transport = NoTransport
    /\ last = NoLast

\* The threads issue operations on a client whose Connect has succeeded.
NextWire ==
    \/ Connect(WireAnames, WireServers)
    \/ \E t \in Threads :
        \/ fConnected /\ OpBegin(t, WireOps)
        \/ OpAllocTag(t)
        \/ OpBuild(t)
        \/ DoRequestSend(t)
        \/ DoRequestReceive(t)
        \/ OpFinish(t)
        \/ OpReturn(t)

\* The concurrent specification starts from a client initialised with the
\* default msize, as Volume::Mount does.
InitWire == Init /\ fMsize = P9_DEFAULT_MSIZE

SpecWire == InitWire /\ [][NextWire]_vars

NextOps ==
    \/ Connect(AnameLens, ServerMsizes)
    \/ Disconnect
    \/ OpBegin(1, AllOps)
    \/ OpAllocTag(1)
    \/ OpBuild(1)
    \/ DoRequestSend(1)
    \/ DoRequestReceive(1)
    \/ OpFinish(1)
    \/ OpReturn(1)

SpecOps == Init /\ [][NextOps]_vars

NextVfs ==
    \/ Mount(VfsServers, BOOLEAN)
    \/ Unmount
    \/ \E ino \in Inos :
        \/ Lookup(ino)
        \/ Open(ino)
        \/ OpenDir(ino)
        \/ Create(ino)
        \/ PutVnode(ino)
    \/ \E k \in CookieSlots :
        \/ FreeCookie(k)
        \/ FreeDirCookie(k)

\* The volume layer starts from a client built with the default msize.
InitVfs == Init /\ fMsize = P9_DEFAULT_MSIZE

SpecVfs == InitVfs /\ [][NextVfs]_vars

TypeOK ==
    /\ tagBitmap \subseteq 0..(MaxTags - 1)
    /\ tagNextHint \in 0..(MaxTags - 1)
    /\ fRequestLock \in Threads \cup {NoThread}
    /\ pc \in [Threads -> {"idle", "alloc", "build", "lock", "recv",
                           "release", "done"}]

\* ------------------------------------------------------------------ claims
\* Threads whose request is on the wire: SendMessage done, ReceiveMessage
\* not yet returned.
InFlight == { t \in Threads : pc[t] = "recv" }
\* Threads that hold the tag they allocated.
HoldsTag(t) == pc[t] \in {"build", "lock", "recv", "release"}
\* The operation of thread t returned after consuming a response.
Consumed(t) == pc[t] = "done" /\ resp[t] # NoMsg

C2_NoTagLeak ==
    tagBitmap = { req[t].tag : t \in { u \in Threads : HoldsTag(u) } }
                    \ {P9_NOTAG}

\* C2 witness: an operation returned a wrong-response-type error after it
\* had been given a real tag, and the pool is empty again.
C2_Witness ==
    \E t \in Threads :
        /\ Consumed(t) /\ status[t] = "B_ERROR"
        /\ req[t].tag # P9_NOTAG
        /\ tagBitmap = {}

\* C3: whenever an operation returns success, the tag of the response it
\* consumed equals the tag of its request.
C3_TagEcho ==
    \A t \in Threads :
        (Consumed(t) /\ status[t] = "B_OK") => resp[t].tag = req[t].tag

\* C4: a response whose type is neither Rlerror nor the request's T-code + 1
\* never makes the operation return success.
C4_WrongTypeIsError ==
    \A t \in Threads :
        (Consumed(t) /\ resp[t].type \notin {P9_RLERROR, op[t] + 1})
            => status[t] # "B_OK"

\* C5: no request other than Tversion is on the wire with tag NOTAG; every
\* other request carries a real slot of the tag pool.
C5_NoNotagOnWire ==
    (reqBuf # NoMsg /\ reqBuf.type # P9_TVERSION)
        => (reqBuf.tag # P9_NOTAG /\ reqBuf.tag \in 0..(MaxTags - 1))

\* C6: FID ownership.  While the volume is mounted and no hook is running,
\* the FIDs marked allocated in the pool are exactly the FIDs held by an
\* owner (the volume's root FID, the metadata FID of a live inode, the FID of
\* a live cookie), and no FID has two owners.  The root inode uses the
\* volume's root FID and is not a second owner of it.
RootOwner == {fRootFid}
InodeOwners(f) ==
    { i \in Inos : vnodes[i].live /\ ~IsRootInode(i) /\ vnodes[i].fid = f }
CookieOwners(f) ==
    { k \in CookieSlots : cookies[k].kind # "none" /\ cookies[k].fid = f }
OwnerCount(f) ==
    (IF f \in RootOwner THEN 1 ELSE 0) + Cardinality(InodeOwners(f))
        + Cardinality(CookieOwners(f))
OwnedFids == { f \in 0..(MaxFids - 1) : OwnerCount(f) > 0 }
C6_FidOwnership ==
    vstate = "mounted" =>
        /\ fidBitmap = OwnedFids
        /\ \A f \in 0..(MaxFids - 1) : OwnerCount(f) <= 1

\* C7: right after a successful Mount exactly one FID, the root, is marked
\* allocated; right after Unmount (which runs once every cookie was freed
\* and every inode put) no FID is marked allocated.
C7_MountUnmountCount ==
    /\ (last.op = "Mount" /\ last.status = "B_OK")
            => (Cardinality(fidBitmap) = 1 /\ fRootFid \in fidBitmap)
    /\ last.op = "Unmount" => fidBitmap = {}

\* C8: after a successful Connect the root FID is pool slot 0: the Tattach
\* that Connect sent carries fid 0 and RootFid() returns 0.
C8_RootIsSlotZero ==
    (last.op = "Connect" /\ ~last.was /\ fConnected) =>
        /\ fRootFid = 0
        /\ \A i \in 1..Len(last.sent) :
            last.sent[i].type = P9_TATTACH => last.sent[i].fid = 0

\* C9: when Open, OpenDir, Create or Lookup returns an error after it
\* allocated a FID (and the transport carried every frame it was given),
\* the FID's pool slot is released again and, if a successful Walk had bound
\* the FID on the server, a Tclunk for it was sent.
C9_ErrorPathsReleaseFid ==
    (/\ last.op \in {"Open", "OpenDir", "Create", "Lookup"}
     /\ last.status # "B_OK"
     /\ last.fid # P9_NOFID
     /\ ~last.fault)
        => /\ last.fid \notin fidBitmap
           /\ last.bound =>
                \E i \in 1..Len(last.sent) :
                    /\ last.sent[i].type = P9_TCLUNK
                    /\ last.sent[i].fid = last.fid

\* Connect ran on a client that was not connected, the server answered
\* Rversion with version "9P2000.L" and then an Rattach that arrived whole.
Negotiated ==
    /\ last.op = "Connect"
    /\ ~last.was
    /\ last.ver.kind = "rversion"
    /\ last.ver.version = P9_VERSION_9P2000_L
    /\ last.att.kind = "rattach"
    /\ last.att.copy = "intact"

\* C10: version negotiation.  For a client that proposed msize C and a
\* server that answered Rversion(S, "9P2000.L") and then Rattach, Connect
\* returns B_OK, the client is connected, its msize is the smaller of C and S
\* and its iounit is msize - 11 (in uint32 arithmetic).
C10_Negotiation ==
    Negotiated =>
        /\ last.status = "B_OK"
        /\ fConnected
        /\ fMsize = (IF ULess(last.ver.msize, last.msize0)
                     THEN last.ver.msize ELSE last.msize0)
        /\ fIOUnit = fMsize - 11

\* C10 witness: the client proposed 65536, the server answered 8192, and
\* the client is connected with msize 8192 and iounit 8181.
C10_Witness ==
    /\ Negotiated
    /\ last.msize0 = 65536
    /\ last.ver.msize = 8192
    /\ fConnected
    /\ fMsize = 8192
    /\ fIOUnit = 8181

\* C11: when the server answers Tversion with an Rversion whose version
\* string is anything other than "9P2000.L", Connect returns B_NOT_SUPPORTED,
\* sends no Tattach, allocates no FID and leaves the client not connected.
C11_VersionMismatch ==
    (/\ last.op = "Connect"
     /\ ~last.was
     /\ last.ver.kind = "rversion"
     /\ last.ver.version # P9_VERSION_9P2000_L)
        => /\ last.status = "B_NOT_SUPPORTED"
           /\ \A i \in 1..Len(last.sent) : last.sent[i].type # P9_TATTACH
           /\ fidBitmap = last.fids0
           /\ ~fConnected

\* Connect ran on a client that was not connected and accepted the server's
\* Rversion, so it went on to allocate the root FID.
AttachStage ==
    /\ last.op = "Connect"
    /\ ~last.was
    /\ last.ver.kind = "rversion"
    /\ ReadString(last.ver.version, VersionBufSize) = "B_OK"
    /\ StrEq(last.ver.version, P9_VERSION_9P2000_L)
\* ... and failed after that: no Rattach was parsed.
AttachFailed ==
    /\ AttachStage
    /\ (last.att.kind # "rattach" \/ last.status # "B_OK")

\* C12: when Connect fails after it allocated the root FID (Tattach build
\* failure, transport failure, Rlerror, wrong response type, unparsable
\* Rattach), the root FID is back in the pool and the client is not
\* connected; for an Rlerror the status returned is the mapping of its errno.
C12_AttachFailureReleasesRoot ==
    AttachFailed =>
        /\ fidBitmap = last.fids0
        /\ ~fConnected
        /\ last.att.kind = "lerror" =>
                last.status = p9_error_to_haiku(last.att.errno)

\* C12 witness: the server answered the Tattach for FID 1 with
\* Rlerror(ENOENT); Connect returned B_ENTRY_NOT_FOUND and slot 1 is free.
C12_Witness ==
    /\ AttachFailed
    /\ last.att.kind = "lerror"
    /\ last.att.errno = P9_ENOENT
    /\ last.status = "B_ENTRY_NOT_FOUND"
    /\ \E i \in 1..Len(last.sent) :
            last.sent[i].type = P9_TATTACH /\ last.sent[i].fid = 1
    /\ 1 \notin fidBitmap
    /\ ~fConnected

\* C13: a step in which Inode::Lookup gets, for its one-name Twalk, an Rwalk
\* that carries fewer qids than names: Lookup returns B_ENTRY_NOT_FOUND, the
\* newfid it allocated is free in the pool again (the pool is as before the
\* call), the Twalk is the only frame sent (no Tclunk for newfid) and the
\* vnode cache is unchanged (no inode created).
C13_ShortWalkNotFound ==
    [][(last'.op = "Lookup" /\ last'.partial) =>
        /\ last'.status = "B_ENTRY_NOT_FOUND"
        /\ last'.fid # P9_NOFID
        /\ last'.fid \notin fidBitmap
        /\ fidBitmap' = fidBitmap
        /\ Len(last'.sent) = 1
        /\ last'.sent[1].type = P9_TWALK
        /\ last'.sent[1].newfid = last'.fid
        /\ vnodes' = vnodes]_vars

\* C13 witness: a Lookup in the root directory walked to newfid 2, got a
\* short Rwalk and returned B_ENTRY_NOT_FOUND with slot 2 free again.
C13_Witness ==
    /\ last.op = "Lookup"
    /\ last.partial
    /\ last.status = "B_ENTRY_NOT_FOUND"
    /\ last.fid = 2
    /\ 2 \notin fidBitmap
    /\ Len(last.sent) = 1
    /\ last.sent[1].fid = fRootFid

\* The volume layer reduced to name resolution on a writable mount of a
\* server that accepts the default msize: mount, lookup, put, unmount.
NextLookup ==
    \/ Mount(WireServers, {FALSE})
    \/ Unmount
    \/ \E ino \in Inos :
        \/ Lookup(ino)
        \/ PutVnode(ino)

SpecLookup == InitVfs /\ [][NextLookup]_vars

\* The inode layer on a read-only mount of a server that accepts the
\* default msize; one caller at a time.
NextRO ==
    \/ Mount(WireServers, {TRUE})
    \/ IoIdle /\ Unmount
    \/ \E ino \in Inos :
        \/ IoIdle /\ Lookup(ino)
        \/ IoIdle /\ Open(ino)
        \/ IoIdle /\ Create(ino)
        \/ IoIdle /\ Remove(ino)
        \/ IoIdle /\ \E toDir \in Inos : Rename(ino, toDir)
        \/ IoIdle /\ CreateDir(ino)
        \/ IoIdle /\ RemoveDir(ino)
        \/ IoIdle /\ CreateSymlink(ino)
        \/ IoIdle /\ WriteStat(ino)
        \/ IoIdle /\ PutVnode(ino)
    \/ \E k \in CookieSlots :
        \/ IoIdle /\ FreeCookie(k)
        \/ WriteBegin(k)
    \/ IoReturn

SpecRO == InitVfs /\ [][NextRO]_vars

\* The hooks that change the file system.
MutatingOps == {"Write", "Create", "Remove", "Rename", "CreateDir",
                "RemoveDir", "CreateSymlink", "WriteStat"}
\* The latest hook call was a mutating one, on a read-only mount.
ReadOnlyCall == vstate = "mounted" /\ fReadOnly /\ last.op \in MutatingOps

\* C14: on a volume mounted read-only, a call to Inode::Write, Create,
\* Remove, Rename, CreateDir, RemoveDir, CreateSymlink or WriteStat hands no
\* frame to the transport, whatever the inode's type and the arguments.
C14_ReadOnlySendsNothing ==
    ReadOnlyCall =>
        /\ last.sent = <<>>
        /\ io.n = 0
        /\ io.pc # "loop"

\* C14 witness: on a read-only mount a Write of 12000 bytes at a valid
\* position returned B_READ_ONLY_DEVICE before its first transaction.
C14_Witness ==
    /\ ReadOnlyCall
    /\ last.op = "Write"
    /\ io.pc = "done"
    /\ io.pos = IoPos
    /\ io.len = ExampleLen
    /\ io.status = "B_READ_ONLY_DEVICE"
    /\ io.n = 0
    /\ last.sent = <<>>

\* C15: on a volume mounted read-only, every call to Inode::Write, Create,
\* Remove, Rename, CreateDir, RemoveDir, CreateSymlink or WriteStat returns
\* B_READ_ONLY_DEVICE, for every inode (directory or not) and all arguments.
C15_ReadOnlyStatus ==
    ReadOnlyCall => last.status = "B_READ_ONLY_DEVICE"

\* File I/O on a writable mount: one caller opens files and reads and writes
\* them, against a server whose msize gives an iounit of ChunkLen or the
\* default one.
NextIO ==
    \/ Mount(IoServers, {FALSE})
    \/ IoIdle /\ Unmount
    \/ \E ino \in Inos : IoIdle /\ Open(ino)
    \/ \E k \in CookieSlots :
        \/ IoIdle /\ FreeCookie(k)
        \/ ReadBegin(k)
        \/ WriteBegin(k)
    \/ IoStep
    \/ IoReturn

SpecIO == InitVfs /\ [][NextIO]_vars

\* The replies the call in progress has had so far, the last one included.
IoSeen == io.before \cup (IF io.cls = "none" THEN {} ELSE {io.cls})
\* ceil(a / b)
CeilDiv(a, b) == (a + b - 1) \div b
IoMin(a, b) == IF a < b THEN a ELSE b

\* C16: while the server returns the full requested count, the k-th Tread
\* (from 0) of Inode::Read(P, L) is at offset P + k*iounit with count
\* min(L - k*iounit, iounit), each payload lands behind the previous ones,
\* and the call ends after exactly ceil(L / iounit) Treads with B_OK and L
\* bytes.
C16_FullReadChunks ==
    (/\ io.kind = "Read"
     /\ fIOUnit > 0
     /\ IoSeen \subseteq {"full"})
        => /\ io.n >= 1 =>
                /\ io.offset = io.pos + (io.n - 1) * fIOUnit
                /\ io.count = IoMin(io.len - (io.n - 1) * fIOUnit, fIOUnit)
                /\ io.total = io.offset - io.pos + io.count
                /\ Len(last.sent) = 1
                /\ last.sent[1].type = P9_TREAD
                /\ last.sent[1].fid = io.fid
           /\ io.n <= CeilDiv(io.len, fIOUnit)
           /\ (io.pc = "done" /\ io.pos >= 0) =>
                /\ io.status = "B_OK"
                /\ io.ret = io.len
                /\ io.n = CeilDiv(io.len, fIOUnit)

C16_Witness ==
    /\ io.kind = "Read"
    /\ io.pc = "done"
    /\ io.status = "B_OK"
    /\ IoSeen = {"full"}
    /\ fIOUnit = 4096
    /\ io.pos = IoPos
    /\ io.len = 12000
    /\ io.n = 3
    /\ io.offset = IoPos + 8192
    /\ io.count = 3808
    /\ io.ret = 12000

\* C17: whatever counts the Rread replies carry, Inode::Read never returns
\* more than the L bytes asked for, and no reply that adds to the result is
\* larger than iounit or than the count of its request.
C17_ReadBounded ==
    (/\ io.kind = "Read"
     /\ fConnected
     /\ io.n >= 1
     /\ io.cls \notin {"failed", "unbuilt"})
        => /\ io.got <= io.count
           /\ ~ULess(fIOUnit, io.got)
           /\ io.total <= io.len

\* C18: after a reply that transferred fewer bytes than its request asked
\* for, Inode::Read and Inode::Write stop: the call is over, returns what
\* was accumulated, and no further request follows.
C18_ShortReplyStops ==
    /\ io.cls \in {"short", "zero"} => /\ io.pc = "done"
                                       /\ io.ret = io.total
    /\ io.before \cap {"short", "zero"} = {}

\* C19: on a writable mount with iounit = msize - 11, against a server that
\* accepts every Twrite in full, Inode::Write(P, L) with P >= 0 ends with
\* B_OK and L bytes written, in chunks of min(remaining, iounit).
C19_WriteCompletes ==
    (/\ io.kind = "Write"
     /\ io.pc = "done"
     /\ io.pos >= 0
     /\ ~fReadOnly
     /\ fIOUnit = fMsize - (P9_HEADER_SIZE + 4)
     /\ IoSeen \subseteq {"full", "unbuilt"})
        => /\ io.status = "B_OK"
           /\ io.ret = io.len
           /\ io.n = CeilDiv(io.len, fIOUnit)

\* C20: every frame handed to the transport after the version negotiation
\* is no larger than the negotiated msize, the Tattach of Connect included.
C20_FramesWithinMsize ==
    \A i \in 1..Len(last.sent) :
        last.sent[i].type # P9_TVERSION
            => ~ULess(fMsize, last.sent[i].size)
\* Directory reading: one caller opens a directory, reads it with various
\* *_num and bufferSize, rewinds and frees the cookie, one cookie at a time.
NextDir ==
    \/ Mount(WireServers, {FALSE})
    \/ RdIdle /\ Unmount
    \/ \E ino \in Inos : RdIdle /\ FreeSlots = CookieSlots /\ OpenDir(ino)
    \/ \E k \in CookieSlots :
        \/ RdIdle /\ FreeDirCookie(k)
        \/ ReadDirBegin(k)
        \/ RewindDir(k)
    \/ RdStep
    \/ RdReturn

SpecDir == InitVfs /\ [][NextDir]_vars

\* C21: when an entry does not fit the output of Inode::ReadDir, the call
\* returns B_BUFFER_OVERFLOW if it has filled in no dirent; if it has, it
\* stops there: no Treaddir follows, and it returns B_OK with the count.
C21_FullOutputStops ==
    /\ rd.status = "B_BUFFER_OVERFLOW" => rd.count = 0 /\ rd.pc = "done"
    /\ rd.full => /\ rd.afterFull = 0
                  /\ rd.pc = "done" => /\ rd.status = "B_OK"
                                       /\ rd.ret = rd.count

\* C22: the dirents the ReadDir calls on one cookie have emitted since
\* OpenDir or RewindDir carry each continuation offset once, in the order
\* of the server's listing, with d_ino = qid.path; when no call failed they
\* are a prefix of the listing.
C22_EmitsInOrderOnce ==
    \A k \in CookieSlots :
        cookies[k].kind = "dir" =>
            \E out \in {dirs[k].out} :
                /\ \A i, j \in 1..Len(out) :
                        i < j => out[i].offset < out[j].offset
                /\ \A i \in 1..Len(out) : \E m \in 1..Len(Listing) :
                        /\ out[i].offset = Listing[m].offset
                        /\ out[i].d_ino = Listing[m].path
                        /\ out[i].d_name = Listing[m].name
                /\ dirs[k].clean =>
                        /\ Len(out) <= Len(Listing)
                        /\ \A i \in 1..Len(out) :
                                /\ out[i].d_ino = Listing[i].path
                                /\ out[i].d_name = Listing[i].name

C22_Witness ==
    \E k \in CookieSlots :
        /\ cookies[k].kind = "dir"
        /\ rd.k = k
        /\ rd.pc = "done"
        /\ rd.status = "B_OK"
        /\ rd.out0 = 1
        /\ rd.ret = 1
        /\ Len(dirs[k].out) = 2
        /\ dirs[k].out[1].d_name = "test.txt"
        /\ dirs[k].out[1].d_ino = 2
        /\ dirs[k].out[2].d_name = "sub"
        /\ dirs[k].out[2].d_ino = 3

\* The slot of the cookie the last hook worked on.
LastDir(k) == cookies[k].kind = "dir" /\ cookies[k].fid = last.fid

\* C23: RewindDir leaves the cookie with offset 0, an empty buffer and EOF
\* cleared, whatever state it was in; the first Treaddir after it asks for
\* offset 0 and the listing is emitted from its first entry again; a call
\* on a cookie at EOF sends nothing and returns zero entries.
C23_RewindRestarts ==
    /\ \A k \in CookieSlots :
        /\ (last.op = "RewindDir" /\ LastDir(k)) =>
                /\ dirs[k].offset = 0
                /\ dirs[k].bufferSize = 0
                /\ dirs[k].bufferPos = 0
                /\ ~dirs[k].eof
        /\ (cookies[k].kind = "dir" /\ dirs[k].rewound # "never"
            /\ dirs[k].clean /\ dirs[k].out # <<>>) =>
                /\ dirs[k].out[1].d_name = Listing[1].name
                /\ dirs[k].out[1].d_ino = Listing[1].path
        /\ (rd.pc # "idle" /\ rd.k = k /\ rd.n = 1 /\ rd.reqAt = 0
            /\ rd.out0 = 0 /\ dirs[k].clean) => rd.reqOffset = 0
    /\ (rd.pc # "idle" /\ rd.eof0) =>
            /\ rd.n = 0
            /\ rd.count = 0
            /\ rd.pc = "done" => rd.status = "B_OK" /\ rd.ret = 0

C23_Witness ==
    \E k \in CookieSlots :
        /\ cookies[k].kind = "dir"
        /\ dirs[k].rewound = "eof"
        /\ rd.k = k
        /\ rd.pc = "done"
        /\ rd.n = 1
        /\ rd.reqOffset = 0
        /\ dirs[k].out # <<>>
        /\ dirs[k].out[1].d_name = "test.txt"
\* The frames of type t about fid f among those the last hook sent.
SentAbout(frames, t, f) ==
    { i \in 1..Len(frames) : frames[i].type = t /\ frames[i].fid = f }

\* C24: a Lookup that walked to a child and succeeded either found the
\* child's id in the vnode cache, and then the cache is as it was and the
\* FID walked to was clunked (unless it equals the root FID or the transport
\* failed), or found it absent, and then exactly that id
\* was registered, owning the FID walked to, after a Tgetattr on it and with
\* no Tclunk; a Lookup that failed registered nothing.
C24_GetInodeByPath ==
    [][(last'.op = "Lookup" /\ last'.fid # P9_NOFID) =>
        IF last'.status # "B_OK" THEN vnodes' = vnodes
        ELSE \/ /\ vnodes' = vnodes
                /\ \E id \in Inos : vnodes[id].live
                /\ SentAbout(last'.sent, P9_TGETATTR, last'.fid) = {}
                /\ \/ SentAbout(last'.sent, P9_TCLUNK, last'.fid) # {}
                   \/ last'.fault
                   \/ last'.fid = fRootFid
             \/ \E id \in Inos :
                /\ ~vnodes[id].live
                /\ vnodes'[id].live
                /\ vnodes'[id].fid = last'.fid
                /\ \A other \in Inos \ {id} : vnodes'[other] = vnodes[other]
                /\ SentAbout(last'.sent, P9_TGETATTR, last'.fid) # {}
                /\ SentAbout(last'.sent, P9_TCLUNK, last'.fid) = {}]_vars

C24_Witness ==
    /\ last.op = "Lookup"
    /\ last.status = "B_OK"
    /\ last.fid # P9_NOFID
    /\ Len(last.sent) = 2
    /\ last.sent[1].type = P9_TWALK
    /\ last.sent[1].newfid = last.fid
    /\ last.sent[2].type = P9_TCLUNK
    /\ last.sent[2].fid = last.fid
    /\ last.fid # fRootFid
    /\ \A id \in Inos : vnodes[id].live => vnodes[id].fid # last.fid
    /\ \E id \in Inos : vnodes[id].live
\* Connect against a server that may refuse Tattach with any errno.
NextErr ==
    \/ ConnectWith(WireAnames, WireServers, AttachRepliesOf(AllErrnos))
    \/ Disconnect

SpecErr == Init /\ [][NextErr]_vars

\* The status the error table fixes for an errno.
TableStatus(e) ==
    CASE e = P9_ENOENT -> "B_ENTRY_NOT_FOUND"
      [] e = P9_EROFS -> "B_READ_ONLY_DEVICE"
      [] e \in {P9_EACCES, P9_EPERM} -> "B_PERMISSION_DENIED"
      [] e = P9_EEXIST -> "B_FILE_EXISTS"
      [] e = P9_EISDIR -> "B_IS_A_DIRECTORY"
      [] e = P9_ENOTDIR -> "B_NOT_A_DIRECTORY"
      [] e = P9_EINVAL -> "B_BAD_VALUE"
      [] e = P9_ENAMETOOLONG -> "B_NAME_TOO_LONG"
      [] e = P9_ENOTEMPTY -> "B_DIRECTORY_NOT_EMPTY"
      [] e = P9_ENOSPC -> "B_DEVICE_FULL"
      [] e = P9_EIO -> "B_IO_ERROR"
      [] e = P9_EOVERFLOW -> "B_BUFFER_OVERFLOW"
      [] e = P9_EOPNOTSUPP -> "B_NOT_SUPPORTED"
      [] OTHER -> "none"

\* C25: an Rlerror is turned into the status the table fixes for its errno,
\* and an errno the table does not know into the status of EIO.
C25_ErrnoTable ==
    (last.op = "Connect" /\ last.att.kind = "lerror") =>
        \E e \in {last.att.errno} :
            /\ TableStatus(e) # "none" => last.status = TableStatus(e)
            /\ e \notin KnownErrnos \cup {0} =>
                    last.status = TableStatus(P9_EIO)

\* ------------------------------------------------------------------------
\* One caller of the client whose operations follow one another, Connect and
\* Disconnect in between; the record of a returned operation is kept while
\* the next one runs.
KeptRecord == IF last.op = "ClientOp" THEN last ELSE NoLast

NextProto ==
    \/ Connect(WireAnames, WireServers)
    \/ Disconnect
    \/ OpBeginL(1, AllOps, KeptRecord)
    \/ OpAllocTag(1)
    \/ OpBuild(1)
    \/ DoRequestSend(1)
    \/ DoRequestReceive(1)
    \/ OpFinish(1)
    \/ OpReturnL(1, Returned(1))

SpecProto == InitWire /\ [][NextProto]_vars

\* The operation of thread t has a response that CheckError or the type check
\* rejects.
ProtocolFailure(t) ==
    /\ resp[t] # NoMsg
    /\ OpResult(op[t], resp[t]) # "B_OK"

\* C26: a client operation that fails on a wrong response type or an Rlerror
\* leaves the connected flag, the msize, the iounit, the root FID and the FID
\* pool as they were (no step of a running operation changes them), and the
\* operation that follows it puts its own request on the transport.
C26_FailureKeepsClient ==
    [][/\ (pc[1] # "idle" /\ pc'[1] # pc[1]) =>
            UNCHANGED <<fConnected, fMsize, fIOUnit, fRootFid, fidBitmap>>
       /\ (pc[1] = "release" /\ pc'[1] = "done" /\ ProtocolFailure(1)) =>
            /\ status'[1] = OpResult(op[1], resp[1])
            /\ UNCHANGED <<fConnected, fMsize, fIOUnit, fRootFid, fidBitmap,
                           fidNextHint>>
       /\ (last.op = "ClientOp" /\ last.status # "B_OK" /\ ~last.fault
           /\ pc[1] = "lock" /\ pc'[1] = "recv") =>
            /\ reqBuf' = req[1]
            /\ reqBuf'.type = op[1]
            /\ reqBuf'.owner = 1]_vars

C26_Witness ==
    /\ last.op = "ClientOp"
    /\ last.status = "B_ERROR"
    /\ ~last.fault
    /\ fConnected
    /\ pc[1] = "recv"
    /\ reqBuf = req[1]
    /\ reqBuf.type = P9_TGETATTR

\* ------------------------------------------------------------------------
\* Threads running operations of the root inode of a mounted volume.
NextLock ==
    \/ HooksIdle /\ Mount(WireServers, {FALSE})
    \/ \E t \in Threads :
        \/ \E o \in InodeOps : InodeBegin(t, o)
        \/ InodeLock(t)
        \/ InodeStep(t)
        \/ InodeEnd(t)

SpecLock == InitVfs /\ [][NextLock]_vars

\* C27: a thread that is at the allocation of a new FID or at the write of
\* the inode's cached state holds the inode's lock, so no two threads are
\* at such a step of the same inode together.
C27_StepsHoldInodeLock ==
    /\ \A t \in Threads : hook[t].pc = "step" => fLock = t
    /\ \A t, u \in Threads :
        (hook[t].pc = "step" /\ hook[u].pc = "step") => t = u

\* C28: Disconnect on a connected client makes one Clunk transaction for the
\* root FID (one Tclunk on the transport, none only when there is no memory
\* for the request or the transport refuses it), releases the root FID and
\* clears the connected flag whatever the clunk came to; on a client that is
\* not connected it sends nothing and changes nothing, so a second
\* Disconnect in a row does nothing.
C28_DisconnectOnce ==
    [][/\ last'.op = "Disconnect" =>
        IF fConnected
        THEN /\ last'.was
             /\ ~fConnected'
             /\ fidBitmap' = fidBitmap \ {fRootFid}
             /\ UNCHANGED <<fRootFid, fMsize, fIOUnit, tagBitmap>>
             /\ Len(last'.sent) <= 1
             /\ \A i \in 1..Len(last'.sent) :
                    /\ last'.sent[i].type = P9_TCLUNK
                    /\ last'.sent[i].fid = fRootFid
             /\ last'.sent = <<>> =>
                    last'.status \in {"B_NO_MEMORY", "B_IO_ERROR"}
        ELSE /\ last'.sent = <<>>
             /\ UNCHANGED <<clientVars, poolVars, wireVars>>
       /\ (last.op = "Disconnect" /\ last'.op = "Disconnect") =>
             /\ last'.sent = <<>>
             /\ UNCHANGED <<clientVars, poolVars, wireVars>>]_vars

\* ------------------------------------------------------------------------
\* A message buffer that callers write values to, read them back from and
\* build request frames in.
NextCodec ==
    \/ \E cap \in CodecCaps : MessageInit(cap)
    \/ \E it \in Items : EncodeItem(it)
    \/ \E n \in StringBufs : DecodeItem(n)
    \/ ResetRead
    \/ BuildFrame

SpecCodec == InitWire /\ [][NextCodec]_vars

\* C29: a frame a builder produced starts with its own length in bytes
\* (header included) as a little-endian 32-bit number, then the type, then
\* the tag as a little-endian 16-bit number, both as passed to the builder;
\* the length is the natural encoded size of the request; the Tversion of
\* Connect carries P9_NOTAG.
C29_FrameHeader ==
    (codec.call.op = "build" /\ codec.call.status = "B_OK") =>
        \E d \in {codec.b.data} :
            /\ Len(d) >= P9_HEADER_SIZE
            /\ d[1] + 256 * d[2] + 65536 * d[3] + 16777216 * d[4] = Len(d)
            /\ Len(d) = MinFrameSize(codec.call.type) + codec.call.extra
            /\ d[5] = codec.call.type
            /\ d[6] = codec.call.tag % 256
            /\ d[7] = codec.call.tag \div 256
            /\ codec.call.type = P9_TVERSION =>
                    (d[6] = 255 /\ d[7] = 255)

C29_Witness ==
    /\ codec.call.op = "build"
    /\ codec.call.status = "B_OK"
    /\ codec.call.type = P9_TWALK
    /\ codec.call.tag = 258
    /\ SubSeq(codec.b.data, 1, 7) = <<22, 0, 0, 0, P9_TWALK, 2, 1>>
    /\ Len(codec.b.data) = 22

\* Bytes the encoding of a value takes on the wire.
EncLen(it) ==
    CASE it.k = "u8" -> 1
      [] it.k = "u16" -> 2
      [] it.k = "u32" -> 4
      [] it.k = "u64" -> 8
      [] it.k = "qid" -> P9_QID_SIZE
      [] it.k = "str" -> 2 + Len(it.v)

\* The bytes the latest write added.
Written == SubSeq(codec.b.data, codec.call.pos0 + 1, Len(codec.b.data))

\* C30: reading back a value that was written (with the decoder of its kind,
\* at the place it was written, into a string buffer that can hold it)
\* succeeds, returns the value written and moves the read cursor by the
\* encoded length; a write adds exactly the encoded length, least
\* significant byte first: 0x12345678 becomes 78 56 34 12 and a QID becomes
\* 13 bytes, type then version then path.
C30_RoundTrip ==
    /\ (/\ codec.call.op = "read"
        /\ codec.call.ok0
        /\ codec.call.it.k = "str" => codec.call.bsize > Len(codec.call.it.v))
        => /\ codec.call.status = "B_OK"
           /\ codec.call.out = codec.call.it.v
           /\ codec.b.fReadPos = codec.call.pos0 + EncLen(codec.call.it)
    /\ (codec.call.op = "write" /\ codec.call.status = "B_OK")
        => /\ Len(Written) = EncLen(codec.call.it)
           /\ codec.call.it = [k |-> "u32", v |-> 305419896]
                => Written = <<120, 86, 52, 18>>
           /\ codec.call.it = [k |-> "u16", v |-> 258]
                => Written = <<2, 1>>
           /\ codec.call.it.k = "qid"
                => Written = <<128, 57, 48, 0, 0,
                              190, 186, 254, 202, 239, 190, 173, 222>>

C30_Witness ==
    /\ codec.call.op = "read"
    /\ codec.call.ok0
    /\ codec.call.status = "B_OK"
    /\ codec.call.pos0 = 4
    /\ codec.call.it.k = "qid"
    /\ codec.call.out = QidExample
    /\ codec.b.fReadPos = 17
    /\ codec.items[1] = [k |-> "u32", v |-> 305419896]

\* ------------------------------------------------------------------------
\* Threads that allocate from a pool and release what they hold (or a value
\* outside the pool), every call of one interleaved with the others'.  The
\* two pools share no field and no mutex, so the threads work on one pool
\* while nothing of the other is held or being called.
ReleaseArgs(t, P) == pcall.held[t][P] \cup {PoolSize(P), Sentinel(P)}

PoolQuiet(P) ==
    \A u \in Threads :
        /\ pcall.held[u][P] = {}
        /\ pcall.th[u].pc = "idle" \/ pcall.th[u].pool # P

NextPool ==
    \E t \in Threads :
        \/ \E P \in Pools :
                PoolQuiet(CHOOSE Q \in Pools : Q # P)
                    /\ PoolBegin(t, P, "allocate", 0)
        \/ \E P \in Pools : \E v \in ReleaseArgs(t, P) :
                PoolQuiet(CHOOSE Q \in Pools : Q # P)
                    /\ PoolBegin(t, P, "release", v)
        \/ PoolLock(t)
        \/ PoolScan(t)
        \/ PoolMark(t)
        \/ PoolClear(t)
        \/ PoolUnlock(t)
        \/ PoolReturn(t)

SpecPool == InitWire /\ [][NextPool]_vars

\* The value Allocate is about to return to thread t from pool P.
Returning(t, P) ==
    /\ pcall.th[t].pc = "ret"
    /\ pcall.th[t].kind = "allocate"
    /\ pcall.th[t].pool = P

\* C31: whatever the interleaving, a value Allocate returns (other than the
\* sentinel) is held by no caller and is returned to no other caller at the
\* same time, so the values callers hold are pairwise distinct.
C31_AllocateDistinct ==
    \A P \in Pools : \A t, u \in Threads :
        /\ t # u => pcall.held[t][P] \cap pcall.held[u][P] = {}
        /\ (Returning(t, P) /\ pcall.th[t].v # Sentinel(P)) =>
            /\ pcall.th[t].v \notin pcall.held[u][P]
            /\ pcall.th[t].v \in Bitmap(P)
            /\ (t # u /\ Returning(u, P)) => pcall.th[u].v # pcall.th[t].v

C31_Witness ==
    /\ pcall.held[1]["fid"] = {1}
    /\ Returning(2, "fid")
    /\ pcall.th[2].v = 2
    /\ pcall.th[1].pc = "lock"
    /\ pcall.th[1].kind = "allocate"

\* C32: from the pool FidPool::Init leaves (slot 0 marked), with callers that
\* release only what Allocate gave them, Allocate never returns 0, slot 0
\* stays marked, and Allocate returns P9_NOFID exactly when every slot was in
\* use when it searched.
C32_SlotZeroAndExhaustion ==
    /\ 0 \in fidBitmap
    /\ \A t \in Threads :
        /\ 0 \notin pcall.held[t]["fid"]
        /\ Returning(t, "fid") =>
            /\ pcall.th[t].v # 0
            /\ (pcall.th[t].v = P9_NOFID) = pcall.th[t].full0

C32_Witness ==
    /\ Returning(1, "fid")
    /\ pcall.th[1].v = P9_NOFID
    /\ pcall.th[1].full0
    /\ fidBitmap = 0..(MaxFids - 1)
    /\ pcall.held[2]["fid"] # {}

\* ------------------------------------------------------------------------
\* One caller that allocates from the pools and passes any value to Release:
\* slots in use, free slots, the first value outside the pool, the sentinel.
NextRelease ==
    \/ \E P \in Pools : PoolBegin(1, P, "allocate", 0)
    \/ \E P \in Pools : \E v \in 0..PoolSize(P) \cup {Sentinel(P)} :
            PoolBegin(1, P, "release", v)
    \/ PoolLock(1)
    \/ PoolScan(1)
    \/ PoolMark(1)
    \/ PoolClear(1)
    \/ PoolUnlock(1)
    \/ PoolReturn(1)

SpecRelease == InitWire /\ [][NextRelease]_vars

\* C33: Release clears at most the bit of the slot it was given; given a slot
\* that is free it leaves the in-use set as it is (a second Release of the
\* same slot does nothing), and given a value outside the pool, the sentinel
\* included, it returns at once without touching the pool.
C33_ReleaseTolerant ==
    [][\E c \in {pcall.th[1]} :
        /\ c.pc = "clear" =>
            /\ c.pool = "fid" =>
                /\ fidBitmap' = fidBitmap \ {c.v}
                /\ c.v \notin fidBitmap => fidBitmap' = fidBitmap
                /\ UNCHANGED <<fidNextHint, tagBitmap, tagNextHint>>
            /\ c.pool = "tag" =>
                /\ tagBitmap' = tagBitmap \ {c.v}
                /\ c.v \notin tagBitmap => tagBitmap' = tagBitmap
                /\ UNCHANGED <<tagNextHint, fidBitmap, fidNextHint>>
        /\ (c.pc = "idle" /\ pcall'.th[1].kind = "release") =>
            /\ UNCHANGED <<fidBitmap, fidNextHint, tagBitmap, tagNextHint>>
            /\ pcall'.th[1].v \in {PoolSize(pcall'.th[1].pool),
                                    Sentinel(pcall'.th[1].pool)}
                    => pcall'.th[1].pc = "ret"
        /\ (c.kind = "release" /\ c.pc \in {"lock", "unlock", "ret"}) =>
            UNCHANGED <<fidBitmap, fidNextHint, tagBitmap, tagNextHint>>]_vars

C33_Witness ==
    /\ pcall.th[1].kind = "release"
    /\ pcall.th[1].pc = "unlock"
    /\ pcall.th[1].pool = "fid"
    /\ pcall.th[1].v = 2
    /\ pcall.th[1].free0
    /\ fidBitmap = {0, 1}

\* ------------------------------------------------------------------------
\* Opens and frees of files and directories on the inodes of a mounted
\* volume; one caller at a time.
NextOpen ==
    \/ Mount(WireServers, {FALSE})
    \/ Unmount
    \/ \E ino \in Inos : Open(ino) \/ OpenDir(ino)
    \/ \E k \in CookieSlots : FreeCookie(k) \/ FreeDirCookie(k)

SpecOpen == InitVfs /\ [][NextOpen]_vars

\* The FIDs a mount holds before any open: the slot FidPool::Init reserves
\* and the root FID of a connected client.
MountFids == {0} \cup (IF fConnected THEN {fRootFid} ELSE {})

CookieFids(ck) == { ck[k].fid : k \in { j \in CookieSlots : ck[j].kind # "none" } }

C35_BoundFidsOnly ==
    (/\ last.op \in {"Lookup", "Create", "Open", "OpenDir"}
     /\ fConnected
     /\ ~last.fault) => ~last.stray

\* ------------------------------------------------------------------------
\* Directory reading against a server that may answer a Treaddir with whole
\* entries or with a payload of one or two bytes, too short for any entry;
\* the refills of a call are not bounded.  The thread inside ReadDir keeps
\* running, so its loop and its return are weakly fair.
JunkSizes == {0, 1, 2}

RdStepAny == RdStepWith(FALSE, JunkSizes)

NextDirLive ==
    \/ Mount(WireServers, {FALSE})
    \/ RdIdle /\ Unmount
    \/ \E ino \in Inos : RdIdle /\ FreeSlots = CookieSlots /\ OpenDir(ino)
    \/ \E k \in CookieSlots :
        \/ RdIdle /\ FreeDirCookie(k)
        \/ ReadDirBegin(k)
        \/ RewindDir(k)
    \/ RdStepAny
    \/ RdReturn

SpecDirLive ==
    /\ InitVfs
    /\ [][NextDirLive]_vars
    /\ WF_vars(RdStepAny)
    /\ WF_vars(RdReturn)

\* C36: every call of Inode::ReadDir that entered its loop returns, whatever
\* the server answers to its Treaddir requests.
C36_ReadDirReturns == (rd.pc = "loop") ~> (rd.pc = "done")

\* ------------------------------------------------------------------------
\* Virtio9PTransport::ReceiveMessage, the device and the queue interrupt.
\* fMaxSize is P9_MAX_MSIZE from the constructor on.
fMaxSize == P9_MAX_MSIZE
\* Requests the virtqueue holds at most.
MaxQueued == 2
\* *size on entry: the capacity of the caller's buffer.
Capacities == {SmallMsize, P9_DEFAULT_MSIZE, P9_MAX_MSIZE}
\* size[4] of the frames the device may put into fResponseBuffer.
ResponseSizes ==
    {P9_HEADER_SIZE, P9_DEFAULT_MSIZE, P9_MAX_MSIZE, P9_MAX_MSIZE + 1}

TransportFrame ==
    UNCHANGED <<clientVars, poolVars, wireVars, threadVars, vstate,
                fReadOnly, vnodes, cookies, io, dirVars, lockVars, codec,
                pcall, last>>

\* if (*size > fMaxSize) *size = fMaxSize;
ClampSize(size) == IF size > fMaxSize THEN fMaxSize ELSE size

\* ReceiveMessage up to acquire_sem_etc: queue_request_v puts the request
\* into the virtqueue, or fails and the call returns its status.
ReceiveQueue ==
    /\ transport.pc = "idle"
    /\ transport.queued + transport.used + transport.fTransferDone < MaxQueued
    /\ \E size \in Capacities, queuedOk \in BOOLEAN :
        transport' =
            IF queuedOk
            THEN [transport EXCEPT !.pc = "wait", !.size = size,
                                   !.copied = 0, !.status = "B_OK",
                                   !.completed = FALSE, !.queued = @ + 1]
            ELSE [transport EXCEPT !.pc = "ret", !.size = size,
                                   !.copied = 0, !.status = "B_ERROR",
                                   !.completed = FALSE]
    /\ TransportFrame

\* The device completes the oldest request of the virtqueue and writes its
\* response into the one response buffer every request names.
DeviceComplete ==
    /\ transport.queued > 0
    /\ \E n \in ResponseSizes :
        transport' = [transport EXCEPT !.queued = @ - 1, !.used = @ + 1,
                                       !.responseSize = n]
    /\ TransportFrame

\* Virtio9PTransport::_QueueCallback: dequeue every completed request, then
\* release fTransferDone once.
QueueCallback ==
    /\ transport.used > 0
    /\ transport' = [transport EXCEPT !.used = 0, !.fTransferDone = @ + 1]
    /\ TransportFrame

\* ReceiveMessage after acquire_sem_etc returned B_OK: the size check
\* against fMaxSize and the memcpy of responseSize bytes.  The request this
\* call queued is the newest, so the device has completed it when none is
\* left in the virtqueue.
ReceiveCopy(t) ==
    IF t.responseSize > fMaxSize
    THEN [t EXCEPT !.pc = "ret", !.status = "B_BUFFER_OVERFLOW",
                   !.fTransferDone = @ - 1, !.completed = t.queued = 0]
    ELSE [t EXCEPT !.pc = "ret", !.status = "B_OK",
                   !.copied = t.responseSize,
                   !.fTransferDone = @ - 1, !.completed = t.queued = 0]

\* acquire_sem_etc(fTransferDone, 1, B_CAN_INTERRUPT, 0) takes a count.
ReceiveWake ==
    /\ transport.pc = "wait"
    /\ transport.fTransferDone > 0
    /\ transport' = ReceiveCopy(transport)
    /\ TransportFrame

\* acquire_sem_etc is interrupted by a signal: ReceiveMessage returns the
\* status and leaves its request in the virtqueue.
ReceiveInterrupted ==
    /\ transport.pc = "wait"
    /\ transport.fTransferDone = 0
    /\ transport' = [transport EXCEPT !.pc = "ret",
                                       !.status = "B_INTERRUPTED"]
    /\ TransportFrame

\* ReceiveMessage returns to DoRequest.
ReceiveReturn ==
    /\ transport.pc = "ret"
    /\ transport' = [transport EXCEPT !.pc = "idle"]
    /\ TransportFrame

NextTransport ==
    \/ ReceiveQueue
    \/ DeviceComplete
    \/ QueueCallback
    \/ ReceiveWake
    \/ ReceiveInterrupted
    \/ ReceiveReturn

SpecTransport == InitWire /\ [][NextTransport]_vars

\* C37: ReceiveMessage copies no more bytes into the caller's buffer than
\* the capacity *size held on entry; a longer response makes it fail.
C37_CopyWithinCapacity ==
    transport.pc = "ret" =>
        /\ transport.copied <= transport.size
        /\ transport.responseSize > transport.size
                => transport.status # "B_OK"

\* C38: ReceiveMessage returns B_OK only when the device has completed the
\* request that this call queued.
C38_OwnCompletion ==
    (transport.pc = "ret" /\ transport.status = "B_OK")
        => transport.completed

\* C39: once Connect has succeeded, the iounit it derived from the
\* negotiated msize is below that msize as a 32-bit unsigned value.
C39_IOUnitBelowMsize ==
    (fConnected /\ last.op = "Connect" /\ last.status = "B_OK")
        => ULess(fIOUnit, fMsize)

\* ------------------------------------------------------------------------
\* The cursors of a P9Buffer under any sequence of writes and reads: besides
\* reading back what was written, the caller may call any primitive read at
\* the current read cursor.
Primitives == {"u8", "u16", "u32", "u64"}
PrimitiveSize(k) ==
    CASE k = "u8" -> 1 [] k = "u16" -> 2 [] k = "u32" -> 4 [] k = "u64" -> 8

\* One ReadUint8 / 16 / 32 / 64 call at the read cursor.
ReadPrimitive(k) ==
    /\ \E r \in {Read(codec.b, k, 0)} :
        codec' = [codec EXCEPT
            !.b = r.b,
            !.aligned = @ /\ r.status # "B_OK",
            !.call = [NoCodecOp EXCEPT !.op = "readp",
                        !.it = [k |-> k, v |-> 0],
                        !.out = r.value, !.status = r.status,
                        !.pos0 = codec.b.fReadPos]]
    /\ CodecFrame

NextCursor ==
    \/ \E cap \in CodecCaps : MessageInit(cap)
    \/ \E it \in Items : EncodeItem(it)
    \/ \E n \in StringBufs : DecodeItem(n)
    \/ \E k \in Primitives : ReadPrimitive(k)
    \/ ResetRead

SpecCursor == InitWire /\ [][NextCursor]_vars

\* C40: a WriteUint8 / 16 / 32 / 64 whose bytes do not fit between the write
\* cursor and the capacity, and a ReadUint8 / 16 / 32 / 64 whose bytes do not
\* lie before the write cursor, returns B_BUFFER_OVERFLOW and leaves the
\* buffer's bytes, its write cursor and its read cursor as they were.
C40_OverflowLeavesBuffer ==
    [][/\ (/\ codec'.call.op = "write"
            /\ codec'.call.it.k \in Primitives
            /\ Len(codec.b.data) + PrimitiveSize(codec'.call.it.k)
                    > codec.b.fCapacity)
          => /\ codec'.call.status = "B_BUFFER_OVERFLOW"
             /\ codec'.b = codec.b
       /\ (/\ codec'.call.op \in {"read", "readp"}
            /\ codec'.call.it.k \in Primitives
            /\ codec.b.fReadPos + PrimitiveSize(codec'.call.it.k)
                    > Len(codec.b.data))
          => /\ codec'.call.status = "B_BUFFER_OVERFLOW"
             /\ codec'.b = codec.b]_vars

C40_Witness ==
    /\ codec.call.op = "readp"
    /\ codec.call.it.k = "u32"
    /\ codec.call.status = "B_BUFFER_OVERFLOW"
    /\ codec.b.fReadPos = 2
    /\ Len(codec.b.data) = 5
    /\ codec.b.fCapacity = SmallMsize

====
